---- MODULE Spec2Model ----
(***************************************************************************)
(* ARTiculate: a gallery / CMS single-page client.                         *)
(*                                                                         *)
(* The model covers the application shell (src/App.tsx and the earlier     *)
(* shell revision kept in src/unnamed/part_000), the gallery filter        *)
(* (src/components/Gallery.tsx and the copy in src/App.tsx), the viewer    *)
(* (src/components/ComicViewer.tsx) and the admin portal                   *)
(* (src/components/AdminPortal.tsx), together with the state of the        *)
(* backend they talk to: the two tables, the storage bucket and the auth   *)
(* session.                                                                *)
(*                                                                         *)
(* Every asynchronous handler is cut at its awaits.  A remote call takes   *)
(* effect in the backend in the step that issues it; the step that follows *)
(* is the continuation that runs when the response is delivered.  Other    *)
(* handlers interleave between the two.                                    *)
(***************************************************************************)
EXTENDS Integers, Sequences, FiniteSets, TLC

\* ------------------------------------------------------------------ bounds

\* Most comics a seeded list of the gallery specification holds.
MaxGalleryComics == 2
\* Most comics the viewer specification loads.
MaxViewerComics == 3
\* Most pages a PDF document has.
MaxPages == 2
\* Reads of the clock (Date.now() in the client, now() in the tables).
MaxClock == 1
MaxInFlight == 1

\* ------------------------------------------------------------------ values

\* JavaScript null / undefined.
NULL == "null"

\* ViewMode (src/unnamed/part_001).
VIEWER == "viewer"
ADMIN == "admin"

\* Text is a sequence of one-character strings.
EmptyStr == << >>

\* String.prototype.toLowerCase on one character of the alphabet in use.
LowerChar(ch) ==
  CASE ch = "A" -> "a"
    [] ch = "B" -> "b"
    [] ch = "C" -> "c"
    [] OTHER -> ch

toLowerCase(s) == [i \in 1..Len(s) |-> LowerChar(s[i])]

\* String.prototype.includes
includes(s, q) ==
  \E i \in 0..(Len(s) - Len(q)) : SubSeq(s, i + 1, i + Len(q)) = q

\* String.prototype.startsWith('image/') on a MIME type.
startsWithImage(mimetype) == mimetype \in {"image/png", "image/jpeg"}

\* The set of elements of a sequence.
Range(s) == {s[i] : i \in 1..Len(s)}

\* Array.prototype.findIndex with the test c => c.id === id (the only test the
\* code uses), 1-based; 0 when nothing matches (-1 in the code).
findIndex(s, id) ==
  IF \E i \in 1..Len(s) : s[i].id = id
  THEN CHOOSE i \in 1..Len(s) : s[i].id = id /\ \A j \in 1..(i - 1) : s[j].id # id
  ELSE 0

\* Array.prototype.find with the same test; NULL when nothing matches.
find(s, id) ==
  IF findIndex(s, id) = 0 THEN NULL ELSE s[findIndex(s, id)]


\* ------------------------------------------------------------------ state

VARIABLES
  \* the deployment: which shell revision is built, and lib/supabase's flag
  revision, isSupabaseConfigured,
  \* the backend: tables, bucket, auth session, clock and id generators
  dbComics, dbFolders, bucket, authSession, clock, nextComicId, nextFolderId,
  \* App state (src/App.tsx 11-22)
  comics, folders, viewMode, session, showLoginModal, loginError, isLoading,
  isLoggingIn,
  \* App handlers in flight
  mounted, getSessionPending, getSessionData, initialEventPending, loadPc,
  loginPc, logoutPc,
  delComic, delFolder,
  \* Gallery state (src/components/Gallery.tsx 79-81)
  activeFolderId, searchQuery, selectedTag,
  \* AdminPortal state (src/components/AdminPortal.tsx 30-51)
  publishStep, errorMessage, editModeId, newTitle, newDesc, newTags,
  selectedFolder, isCreatingNewFolder, newFolderName, layoutSize, fileObject,
  previewUrl, thumbPreviewUrl, validationError,
  \* AdminPortal tab and bulk state (src/components/AdminPortal.tsx 29, 48-49)
  activeTab, bulkFiles, batchProgress,
  \* handlePublish or handleBulkUpload in flight, and the timers it leaves behind
  pub, timers,
  \* the runs of portals that were unmounted while they awaited a response
  bg,
  \* ComicViewer state (src/components/ComicViewer.tsx 16-20) and its renders
  routeId, comic, pdfPages, loadingPdf, pdfjsLib, renders,
  \* history: the operation that ran last; the remote calls issued and the
  \* shell callbacks invoked so far
  lastOp, calls

envVars == <<revision, isSupabaseConfigured>>
storeVars ==
  <<dbComics, dbFolders, bucket, authSession, clock, nextComicId, nextFolderId>>
dataVars == <<comics, folders>>
authVars == <<viewMode, session, showLoginModal, loginError, isLoggingIn>>
shellProcVars ==
  <<mounted, getSessionPending, getSessionData, initialEventPending, loadPc,
    loginPc, logoutPc>>
delVars == <<delComic, delFolder>>
galleryVars == <<activeFolderId, searchQuery, selectedTag>>
formVars ==
  <<editModeId, newTitle, newDesc, newTags, selectedFolder, isCreatingNewFolder,
    newFolderName, layoutSize, fileObject, previewUrl, thumbPreviewUrl>>
adminVars == <<publishStep, errorMessage, validationError, pub, timers>>
bulkVars == <<activeTab, bulkFiles, batchProgress>>
viewerVars == <<routeId, comic, pdfPages, loadingPdf, pdfjsLib, renders>>

vars ==
  <<envVars, storeVars, dataVars, authVars, isLoading, shellProcVars, delVars,
    galleryVars, formVars, adminVars, bulkVars, bg, viewerVars, lastOp, calls>>

\* ------------------------------------------------------------------ records

\* A URL is the sequence <<host, tempId, kind, extension>>; the last three are
\* the name of the object it points at.  The empty sequence stands for the
\* falsy values '' and null, which the code tells apart nowhere.
NoUrl == << >>

\* getPublicUrl: the host contains 'supabase.co' and the last path segment is
\* the object's name.
PublicUrl(fileName) == <<"supabase.co">> \o fileName

\* URL.createObjectURL(file) (AdminPortal.tsx 93)
ObjectUrl(file) == <<"blob", 0, file.name[1], file.name[2]>>

\* imageurl.includes('supabase.co') (App.tsx 112)
includesSupabase(url) == url # NoUrl /\ url[1] = "supabase.co"

\* urlParts[urlParts.length - 1] (App.tsx 113-114)
lastSegment(url) == Tail(url)

\* No ComicEntry (the viewer's comic state is null) and no File.
NoComic == [id |-> NULL]
NoFile == [type |-> NULL]

\* `${tempId}-main.${fileExt}` (AdminPortal.tsx 133-134)
MainFileName(tempId, fileExt) == <<tempId, "main", fileExt>>

\* Identifiers the tables hand out.
ComicId(n) == <<"c1", "c2", "c3", "c4", "c5", "c6", "c7", "c8", "c9">>[n]
FolderId(n) == <<"f1", "f2", "f3", "f4", "f5", "f6", "f7", "f8", "f9">>[n]

ImageFile == [name |-> <<"cover", "png">>, type |-> "image/png"]
PdfFile == [name |-> <<"issue", "pdf">>, type |-> "application/pdf"]

\* Rows the tables hold before the session starts.
SeedFolders ==
  {[id |-> FolderId(1), name |-> <<"S">>, description |-> EmptyStr,
    datecreated |-> -2]}

SeedComics ==
  {[id |-> ComicId(1), title |-> <<"A", "b">>, description |-> <<"c">>,
    date |-> -1, imageurl |-> PublicUrl(MainFileName(-1, "png")),
    thumbnailurl |-> NoUrl, mimetype |-> "image/png", tags |-> << <<"x">> >>,
    folderid |-> FolderId(1), layoutsize |-> "medium"],
   [id |-> ComicId(2), title |-> <<"B">>, description |-> EmptyStr,
    date |-> -2, imageurl |-> <<"cdn.example">> \o MainFileName(-2, "pdf"),
    thumbnailurl |-> NoUrl, mimetype |-> "application/pdf", tags |-> << >>,
    folderid |-> NULL, layoutsize |-> "medium"]}

\* .order('date', { ascending: false }) (App.tsx 40-43)
RECURSIVE orderByDateDesc(_)
orderByDateDesc(rows) ==
  IF rows = {} THEN << >>
  ELSE LET first == CHOOSE r \in rows : \A o \in rows : o.date <= r.date
       IN <<first>> \o orderByDateDesc(rows \ {first})

\* .order('datecreated', { ascending: true }) (App.tsx 32-35)
RECURSIVE orderByDateCreatedAsc(_)
orderByDateCreatedAsc(rows) ==
  IF rows = {} THEN << >>
  ELSE LET first == CHOOSE r \in rows : \A o \in rows : r.datecreated <= o.datecreated
       IN <<first>> \o orderByDateCreatedAsc(rows \ {first})

\* The record of the operation that ran last.
Op(name, arg, result) == [op |-> name, arg |-> arg, result |-> result]

\* ------------------------------------------------------------------ initial values

EnvInit ==
  /\ revision \in {"App", "part_000"}
  /\ isSupabaseConfigured \in BOOLEAN

StoreInit(comicRows, folderRows) ==
  /\ dbFolders = folderRows
  /\ dbComics = comicRows
  /\ bucket = {lastSegment(c.imageurl) :
                 c \in {x \in comicRows : includesSupabase(x.imageurl)}}
  /\ clock = 0
  /\ nextComicId = Cardinality(SeedComics) + 1
  /\ nextFolderId = Cardinality(SeedFolders) + 1

\* useState initial values, src/App.tsx 11-22
AppInit ==
  /\ comics = << >>
  /\ folders = << >>
  /\ viewMode = VIEWER
  /\ session = NULL
  /\ showLoginModal = FALSE
  /\ loginError = NULL
  /\ isLoading = TRUE
  /\ isLoggingIn = FALSE

ShellProcInit ==
  /\ mounted = FALSE
  /\ getSessionPending = FALSE
  /\ getSessionData = NULL
  /\ initialEventPending = FALSE
  /\ loadPc = [pc |-> "init", ok |-> TRUE, data |-> << >>]
  /\ loginPc = "idle"
  /\ logoutPc = "idle"

DelInit ==
  /\ delComic = {}
  /\ delFolder = {}

\* useState initial values, src/components/Gallery.tsx 79-81
GalleryInit ==
  /\ activeFolderId = NULL
  /\ searchQuery = EmptyStr
  /\ selectedTag = EmptyStr

\* useState initial values, src/components/AdminPortal.tsx 30-51
AdminInit ==
  /\ publishStep = "idle"
  /\ errorMessage = ""
  /\ editModeId = NULL
  /\ newTitle = EmptyStr
  /\ newDesc = EmptyStr
  /\ newTags = EmptyStr
  /\ selectedFolder = ""
  /\ isCreatingNewFolder = FALSE
  /\ newFolderName = EmptyStr
  /\ layoutSize = "medium"
  /\ fileObject = NoFile
  /\ previewUrl = NoUrl
  /\ thumbPreviewUrl = NoUrl
  /\ validationError = FALSE
  /\ activeTab = "single"
  /\ bulkFiles = << >>
  /\ batchProgress = [current |-> 0, total |-> 0]
  /\ pub = [pc |-> "idle"]
  /\ timers = {}
  /\ bg = {}

\* useState initial values, src/components/ComicViewer.tsx 16-20
ViewerInit ==
  /\ routeId = NULL
  /\ comic = NoComic
  /\ pdfPages = << >>
  /\ loadingPdf = FALSE
  /\ pdfjsLib = TRUE
  /\ renders = {}

HistoryInit ==
  /\ lastOp = Op("init", NULL, NULL)
  /\ calls = {}

\* ------------------------------------------------------------------ App shell

\* const isAuthenticated = !!session (App.tsx 149, part_000 110)
isAuthenticated == session # NULL

\* part_000 99-108: the earlier shell returns the configuration screen instead
\* of the router; src/App.tsx has no such branch.
ConfigScreen == revision = "part_000" /\ ~isSupabaseConfigured

\* The header, the modal and the routes exist once App has rendered its router.
ShellVisible == mounted /\ ~ConfigScreen

RootRoute_IgnoresViewMode ==
  IF isLoading THEN "none"
  ELSE IF isAuthenticated THEN "AdminPortal" ELSE "Gallery"

\* The element of <Route path="/"> (App.tsx 211-226, part_000 153-167):
\* !isLoading && (isAuthenticated && viewMode === ADMIN ? AdminPortal : Gallery)
RootRoute ==
  IF isLoading THEN "none"
  ELSE IF isAuthenticated /\ viewMode = ADMIN THEN "AdminPortal" ELSE "Gallery"

\* What the page at the root route shows.
RootScreen == IF ConfigScreen THEN "ConfigurationRequired" ELSE RootRoute

\* The admin portal is on screen at the root route (App.tsx 211-223).
AdminVisible == mounted /\ routeId = NULL /\ RootScreen = "AdminPortal"

AdminPortalUnmount_Aborts ==
  /\ publishStep' = "idle"
  /\ errorMessage' = ""
  /\ editModeId' = NULL
  /\ newTitle' = EmptyStr
  /\ newDesc' = EmptyStr
  /\ newTags' = EmptyStr
  /\ selectedFolder' = ""
  /\ isCreatingNewFolder' = FALSE
  /\ newFolderName' = EmptyStr
  /\ layoutSize' = "medium"
  /\ fileObject' = NoFile
  /\ previewUrl' = NoUrl
  /\ thumbPreviewUrl' = NoUrl
  /\ validationError' = FALSE
  /\ activeTab' = "single"
  /\ bulkFiles' = << >>
  /\ batchProgress' = [current |-> 0, total |-> 0]
  /\ timers' = {}
  /\ pub' = [pc |-> "idle"]
  /\ bg' = bg

\* The root route stops rendering <AdminPortal> (App.tsx 211-226): React
\* discards the component's state (AdminPortal.tsx 29-51), so the next mount
\* starts from the useState initial values.  A handlePublish or
\* handleBulkUpload that is awaiting a response keeps running, detached from
\* any portal on screen; what it sets on the discarded component, and the
\* timers that component left, have no effect.  At most MaxInFlight detached
\* runs are followed.
AdminPortalUnmount ==
  /\ pub.pc # "idle" => Cardinality(bg) < MaxInFlight
  /\ publishStep' = "idle"
  /\ errorMessage' = ""
  /\ editModeId' = NULL
  /\ newTitle' = EmptyStr
  /\ newDesc' = EmptyStr
  /\ newTags' = EmptyStr
  /\ selectedFolder' = ""
  /\ isCreatingNewFolder' = FALSE
  /\ newFolderName' = EmptyStr
  /\ layoutSize' = "medium"
  /\ fileObject' = NoFile
  /\ previewUrl' = NoUrl
  /\ thumbPreviewUrl' = NoUrl
  /\ validationError' = FALSE
  /\ activeTab' = "single"
  /\ bulkFiles' = << >>
  /\ batchProgress' = [current |-> 0, total |-> 0]
  /\ timers' = {}
  /\ pub' = [pc |-> "idle"]
  /\ bg' = (IF pub.pc = "idle" THEN bg
            ELSE bg \cup {[pub EXCEPT !.detached = TRUE]})

\* The portal's state after a step of the shell or the router that leaves the
\* portal on screen (visibleAfter) or not.
portalAfter(visibleAfter) ==
  IF AdminVisible /\ ~visibleAfter
  THEN AdminPortalUnmount
  ELSE UNCHANGED <<formVars, adminVars, bulkVars, bg>>

AuthCallbackViewMode_KeepsMode(s, mode) == mode

\* The callback given to onAuthStateChange (App.tsx 59-62): the next session and
\* view mode.
AuthCallbackViewMode(s, mode) == IF s = NULL THEN VIEWER ELSE mode

\* loadData up to its first await (App.tsx 24-35).
loadDataStart ==
  IF ~isSupabaseConfigured
  THEN /\ isLoading' = FALSE
       /\ loadPc' = [pc |-> "done", ok |-> TRUE, data |-> << >>]
       /\ calls' = calls \cup {"auth.getSession", "auth.onAuthStateChange"}
  ELSE /\ isLoading' = TRUE
       /\ \E ok \in BOOLEAN :
            loadPc' = [pc |-> "folders", ok |-> ok,
                       data |-> IF ok THEN orderByDateCreatedAsc(dbFolders)
                                ELSE << >>]
       /\ calls' = calls \cup {"auth.getSession", "auth.onAuthStateChange",
                               "folders.select"}

\* The mount effect (App.tsx 54-67): getSession, subscribe, loadData.
useEffect_mount ==
  /\ ~mounted
  /\ mounted' = TRUE
  /\ getSessionPending' = TRUE
  /\ getSessionData' = "unread"
  /\ initialEventPending' = TRUE
  /\ loadDataStart
  /\ lastOp' = Op("useEffect_mount", NULL, NULL)
  /\ UNCHANGED <<envVars, bg, bulkVars, storeVars, dataVars, authVars, loginPc, logoutPc,
                 delVars, galleryVars, formVars, adminVars, viewerVars>>

\* supabase.auth.getSession() (App.tsx 55): the auth client reads the session
\* it holds at some moment after the call; the promise resolves later.
getSession_read ==
  /\ mounted /\ getSessionPending /\ getSessionData = "unread"
  /\ getSessionData' = authSession
  /\ lastOp' = Op("getSession_read", authSession, NULL)
  /\ UNCHANGED <<envVars, bg, bulkVars, storeVars, dataVars, authVars, isLoading, mounted,
                 getSessionPending, initialEventPending, loadPc, loginPc,
                 logoutPc, delVars, galleryVars, formVars, adminVars,
                 viewerVars, calls>>

\* .then(({ data: { session } }) => setSession(session)) (App.tsx 55-57): the
\* value is the one the client read, whatever happened since.
getSession_then ==
  /\ mounted /\ getSessionPending /\ getSessionData # "unread"
  /\ getSessionPending' = FALSE
  /\ session' = getSessionData
  /\ lastOp' = Op("getSession_then", getSessionData, NULL)
  /\ portalAfter(getSessionData # NULL)
  /\ UNCHANGED <<envVars, storeVars, dataVars, viewMode, showLoginModal,
                 loginError, isLoggingIn, isLoading, mounted, getSessionData,
                 initialEventPending, loadPc, loginPc, logoutPc, delVars,
                 galleryVars, viewerVars, calls>>

\* An auth-state-change notification (App.tsx 59-62): the first one carries the
\* session the client starts with; later ones report a sign-in or a sign-out
\* that happened outside this page (another tab, an expired token).
onAuthStateChange(event) ==
  /\ mounted /\ isSupabaseConfigured
  /\ loginPc = "idle" /\ logoutPc = "idle"
  /\ CASE event = "INITIAL_SESSION" ->
            /\ initialEventPending
            /\ initialEventPending' = FALSE
            /\ UNCHANGED authSession
       [] event = "SIGNED_IN" ->
            /\ ~initialEventPending /\ authSession = NULL
            /\ authSession' = "s1"
            /\ UNCHANGED initialEventPending
       [] event = "SIGNED_OUT" ->
            /\ ~initialEventPending /\ authSession # NULL
            /\ authSession' = NULL
            /\ UNCHANGED initialEventPending
  /\ session' = authSession'
  /\ viewMode' = AuthCallbackViewMode(authSession', viewMode)
  /\ lastOp' = Op("onAuthStateChange", authSession', viewMode)
  /\ portalAfter(authSession' # NULL)
  /\ UNCHANGED <<envVars, dbComics, dbFolders, bucket, clock, nextComicId,
                 nextFolderId, dataVars, showLoginModal, loginError,
                 isLoggingIn, isLoading, mounted, getSessionPending, getSessionData, loadPc,
                 loginPc, logoutPc, delVars, galleryVars,
                 viewerVars, calls>>

\* loadData after the folders query (App.tsx 37-43, 47-51)
loadData_folders ==
  /\ loadPc.pc = "folders"
  /\ IF ~loadPc.ok
     THEN /\ isLoading' = FALSE
          /\ loadPc' = [pc |-> "done", ok |-> FALSE, data |-> << >>]
          /\ UNCHANGED <<folders, calls>>
     ELSE /\ folders' = loadPc.data
          /\ \E ok \in BOOLEAN :
               loadPc' = [pc |-> "comics", ok |-> ok,
                          data |-> IF ok THEN orderByDateDesc(dbComics)
                                   ELSE << >>]
          /\ calls' = calls \cup {"comics.select"}
          /\ UNCHANGED isLoading
  /\ lastOp' = Op("loadData_folders", NULL,
                  IF loadPc.ok THEN "ok" ELSE "error")
  /\ UNCHANGED <<envVars, bg, bulkVars, storeVars, comics, authVars, mounted,
                 getSessionPending, getSessionData, initialEventPending, loginPc, logoutPc,
                 delVars, galleryVars, formVars, adminVars, viewerVars>>

\* loadData after the comics query (App.tsx 45-51)
loadData_comics ==
  /\ loadPc.pc = "comics"
  /\ IF ~loadPc.ok
     THEN UNCHANGED comics
     ELSE comics' = loadPc.data
  /\ isLoading' = FALSE
  /\ loadPc' = [pc |-> "done", ok |-> loadPc.ok, data |-> << >>]
  /\ lastOp' = Op("loadData_comics", NULL,
                  IF loadPc.ok THEN "ok" ELSE "error")
  /\ UNCHANGED <<envVars, bg, bulkVars, storeVars, folders, authVars, mounted,
                 getSessionPending, getSessionData, initialEventPending, loginPc, logoutPc,
                 delVars, galleryVars, formVars, adminVars, viewerVars, calls>>

\* 'Enter Atelier' (App.tsx 191-197, part_000 233-240): shown when signed out.
openLoginModal ==
  /\ ShellVisible /\ ~isAuthenticated
  /\ showLoginModal' = TRUE
  /\ lastOp' = Op("openLoginModal", NULL, NULL)
  /\ UNCHANGED <<envVars, bg, bulkVars, storeVars, dataVars, viewMode, session, loginError,
                 isLoggingIn, isLoading, shellProcVars, delVars, galleryVars,
                 formVars, adminVars, viewerVars, calls>>

\* The modal's X (App.tsx 237) or Cancel (part_000 206-213, disabled while
\* logging in, and clearing the error).
closeLoginModal ==
  /\ ShellVisible /\ showLoginModal
  /\ revision = "part_000" => ~isLoggingIn
  /\ showLoginModal' = FALSE
  /\ loginError' = (IF revision = "part_000" THEN NULL ELSE loginError)
  /\ lastOp' = Op("closeLoginModal", NULL, NULL)
  /\ UNCHANGED <<envVars, bg, bulkVars, storeVars, dataVars, viewMode, session, isLoggingIn,
                 isLoading, shellProcVars, delVars, galleryVars, formVars,
                 adminVars, viewerVars, calls>>

\* handleLogin up to its await (App.tsx 69-78); the submit button is disabled
\* while isLoggingIn (App.tsx 263).
handleLogin ==
  /\ ShellVisible /\ showLoginModal /\ ~isLoggingIn /\ loginPc = "idle"
  /\ loginError' = NULL
  /\ isLoggingIn' = TRUE
  /\ loginPc' = "await"
  /\ calls' = calls \cup {"auth.signInWithPassword"}
  /\ lastOp' = Op("handleLogin", NULL, NULL)
  /\ UNCHANGED <<envVars, bg, bulkVars, storeVars, dataVars, viewMode, session,
                 showLoginModal, isLoading, mounted, getSessionPending, getSessionData,
                 initialEventPending, loadPc, logoutPc, delVars, galleryVars,
                 formVars, adminVars, viewerVars>>

\* The err.message values a failed sign-in carries: the backend's text, or none.
AuthErrorMessages == {"", "Invalid login credentials"}

loginErrorMessage_Raw(message) == message

\* err.message || "Invalid credentials." (App.tsx 87)
loginErrorMessage(message) ==
  IF message = "" THEN "Invalid credentials." ELSE message

\* handleLogin after signInWithPassword (App.tsx 80-90).  On success the client
\* library has stored the session and notified the subscriber (59-62) before the
\* promise resolves.
handleLogin_resume ==
  /\ loginPc = "await"
  /\ \E ok \in (IF isSupabaseConfigured THEN BOOLEAN ELSE {FALSE}) :
       IF ok
       THEN /\ authSession' = "s1"
            /\ session' = "s1"
            /\ showLoginModal' = FALSE
            /\ viewMode' = ADMIN
            /\ UNCHANGED loginError
            /\ lastOp' = Op("handleLogin_resume", NULL, "ok")
       ELSE /\ \E message \in AuthErrorMessages :
                 loginError' = loginErrorMessage(message)
            /\ UNCHANGED <<authSession, session, showLoginModal, viewMode>>
            /\ lastOp' = Op("handleLogin_resume", NULL, "error")
  /\ isLoggingIn' = FALSE
  /\ loginPc' = "idle"
  /\ UNCHANGED <<envVars, bg, bulkVars, dbComics, dbFolders, bucket, clock, nextComicId,
                 nextFolderId, dataVars, isLoading, mounted, getSessionPending, getSessionData,
                 initialEventPending, loadPc, logoutPc, delVars, galleryVars,
                 formVars, adminVars, viewerVars, calls>>

\* handleLogout up to its await (App.tsx 93-94); the button is shown when
\* authenticated (App.tsx 184-189).
handleLogout ==
  /\ ShellVisible /\ isAuthenticated /\ logoutPc = "idle" /\ loginPc = "idle"
  /\ logoutPc' = "await"
  /\ calls' = calls \cup {"auth.signOut"}
  /\ lastOp' = Op("handleLogout", NULL, NULL)
  /\ UNCHANGED <<envVars, bg, bulkVars, storeVars, dataVars, authVars, isLoading, mounted,
                 getSessionPending, getSessionData, initialEventPending, loadPc, loginPc,
                 delVars, galleryVars, formVars, adminVars, viewerVars>>

\* handleLogout after signOut (App.tsx 95).  When signOut succeeds the
\* subscriber (59-62) has been notified with no session; when it fails the
\* session stays.
handleLogout_resume ==
  /\ logoutPc = "await"
  /\ \E ok \in BOOLEAN :
       IF ok
       THEN /\ authSession' = NULL
            /\ session' = NULL
            /\ lastOp' = Op("handleLogout_resume", viewMode, "ok")
       ELSE /\ UNCHANGED <<authSession, session>>
            /\ lastOp' = Op("handleLogout_resume", viewMode, "error")
  /\ viewMode' = VIEWER
  /\ logoutPc' = "idle"
  /\ portalAfter(FALSE)
  /\ UNCHANGED <<envVars, dbComics, dbFolders, bucket, clock, nextComicId,
                 nextFolderId, dataVars, showLoginModal, loginError,
                 isLoggingIn, isLoading, mounted, getSessionPending, getSessionData,
                 initialEventPending, loadPc, loginPc, delVars, galleryVars,
                 viewerVars, calls>>

\* The Atelier / Previewing button (App.tsx 174-183): shown when authenticated.
toggleAtelier ==
  /\ ShellVisible /\ isAuthenticated
  /\ viewMode' = (IF viewMode = ADMIN THEN VIEWER ELSE ADMIN)
  /\ lastOp' = Op("toggleAtelier", NULL, NULL)
  /\ portalAfter(FALSE)
  /\ UNCHANGED <<envVars, storeVars, dataVars, session, showLoginModal,
                 loginError, isLoggingIn, isLoading, shellProcVars, delVars,
                 galleryVars, viewerVars, calls>>

\* The logo and Gallery links (App.tsx 156, 164-166): route '/', view mode VIEWER.
clickGalleryLink ==
  /\ ShellVisible
  /\ viewMode' = VIEWER
  /\ routeId' = NULL
  /\ lastOp' = Op("clickGalleryLink", NULL, NULL)
  /\ portalAfter(FALSE)
  /\ UNCHANGED <<envVars, storeVars, dataVars, session, showLoginModal,
                 loginError, isLoggingIn, isLoading, shellProcVars, delVars,
                 galleryVars, comic, pdfPages, loadingPdf,
                 pdfjsLib, renders, calls>>

\* ---- the shell on its own: mount, load, sign in and out, switch modes

InitShell ==
  /\ EnvInit
  /\ StoreInit(SeedComics, SeedFolders)
  /\ authSession \in (IF isSupabaseConfigured THEN {NULL, "s1"} ELSE {NULL})
  /\ AppInit /\ ShellProcInit /\ DelInit /\ GalleryInit /\ AdminInit
  /\ ViewerInit /\ HistoryInit

NextShell ==
  \/ useEffect_mount
  \/ getSession_read
  \/ getSession_then
  \/ \E event \in {"INITIAL_SESSION", "SIGNED_IN", "SIGNED_OUT"} :
       onAuthStateChange(event)
  \/ loadData_folders
  \/ loadData_comics
  \/ openLoginModal
  \/ closeLoginModal
  \/ handleLogin
  \/ handleLogin_resume
  \/ handleLogout
  \/ handleLogout_resume
  \/ toggleAtelier
  \/ clickGalleryLink

SpecShell == InitShell /\ [][NextShell]_vars

\* ------------------------------------------------------------------ Gallery

\* No tag is selected.  selectedTag is null or a tag; a tag is never '' and the
\* code tests only `!selectedTag`, so the empty text stands for null.
NoTag == EmptyStr

\* const matchesFolder = !activeFolderId || c.folderid === activeFolderId
matchesFolder(c, folderId) == folderId = NULL \/ c.folderid = folderId

matchesSearch_CaseSensitive(c, query) ==
  \/ query = EmptyStr
  \/ includes(c.title, query)
  \/ includes(c.description, query)

\* const matchesSearch = !searchQuery ||
\*   c.title.toLowerCase().includes(searchQuery.toLowerCase()) ||
\*   c.description.toLowerCase().includes(searchQuery.toLowerCase())
matchesSearch(c, query) ==
  \/ query = EmptyStr
  \/ includes(toLowerCase(c.title), toLowerCase(query))
  \/ includes(toLowerCase(c.description), toLowerCase(query))

\* const matchesTag = !selectedTag || c.tags.includes(selectedTag)
matchesTag(c, tag) == tag = NoTag \/ tag \in Range(c.tags)

\* comics.filter(c => matchesFolder && matchesSearch && matchesTag)
\* (Gallery.tsx 89-98, App.tsx 368-377)
filteredComicsOf(list, folderId, query, tag) ==
  SelectSeq(list, LAMBDA c : /\ matchesFolder(c, folderId)
                             /\ matchesSearch(c, query)
                             /\ matchesTag(c, tag))

filteredComics ==
  filteredComicsOf(comics, activeFolderId, searchQuery, selectedTag)

\* GalleryCard's displayUrl (Gallery.tsx 12, App.tsx 301):
\* comic.thumbnailurl || (mimetype.startsWith('image/') ? imageurl : null);
\* the card renders <img src={displayUrl}> when it is truthy, else a placeholder.
displayUrl(c) ==
  IF c.thumbnailurl # NoUrl THEN c.thumbnailurl
  ELSE IF startsWithImage(c.mimetype) THEN c.imageurl
  ELSE NoUrl

\* allTags (Gallery.tsx 83-87): the tags of the loaded comics.
allTags == UNION {Range(c.tags) : c \in Range(comics)}

\* const count = comics.filter(c => c.folderid === f.id).length (App.tsx 409)
folderCount(f) == Len(SelectSeq(comics, LAMBDA c : c.folderid = f.id))

\* The gallery is on screen at the root route.
GalleryVisible == mounted /\ routeId = NULL /\ RootScreen = "Gallery"

\* onChange of the search box (Gallery.tsx 166)
setSearchQuery(q) ==
  /\ GalleryVisible
  /\ searchQuery' = q
  /\ lastOp' = Op("setSearchQuery", NULL, NULL)
  /\ UNCHANGED <<envVars, bg, bulkVars, storeVars, dataVars, authVars, isLoading,
                 shellProcVars, delVars, activeFolderId, selectedTag, formVars,
                 adminVars, viewerVars, calls>>

\* The tag buttons (Gallery.tsx 139-153): 'All Tags' and one per tag in allTags.
setSelectedTag(t) ==
  /\ GalleryVisible
  /\ t \in allTags \cup {NoTag}
  /\ selectedTag' = t
  /\ lastOp' = Op("setSelectedTag", NULL, NULL)
  /\ UNCHANGED <<envVars, bg, bulkVars, storeVars, dataVars, authVars, isLoading,
                 shellProcVars, delVars, activeFolderId, searchQuery, formVars,
                 adminVars, viewerVars, calls>>

\* The series buttons (Gallery.tsx 115-131): the whole archive and one per folder.
setActiveFolderId(f) ==
  /\ GalleryVisible
  /\ f \in {x.id : x \in Range(folders)} \cup {NULL}
  /\ activeFolderId' = f
  /\ lastOp' = Op("setActiveFolderId", f, NULL)
  /\ UNCHANGED <<envVars, bg, bulkVars, storeVars, dataVars, authVars, isLoading,
                 shellProcVars, delVars, searchQuery, selectedTag, formVars,
                 adminVars, viewerVars, calls>>

\* 'Clear all filters' (Gallery.tsx 184, shown when nothing matches) resets the
\* three filters; 'Clear Filters' (App.tsx 456-466, shown while a search or a tag
\* is active) resets the search and the tag.
clearFilters ==
  /\ GalleryVisible
  /\ \/ /\ filteredComics = << >>
        /\ activeFolderId' = NULL
     \/ /\ searchQuery # EmptyStr \/ selectedTag # NoTag
        /\ UNCHANGED activeFolderId
  /\ searchQuery' = EmptyStr
  /\ selectedTag' = NoTag
  /\ lastOp' = Op("clearFilters", NULL, NULL)
  /\ UNCHANGED <<envVars, bg, bulkVars, storeVars, dataVars, authVars, isLoading,
                 shellProcVars, delVars, formVars, adminVars, viewerVars, calls>>

\* ---- the gallery on its own: a loaded list, and the three filters

\* What a loaded comic can look like, but for its id and date.
GalleryTitles == {<<"A", "b">>, <<"b", "a">>}
GalleryDescriptions == {EmptyStr, <<"B", "c">>}
GalleryTagLists == {<< >>, << <<"x">>, <<"y">> >>}
GalleryQueries == {EmptyStr, <<"a">>, <<"A", "B">>, <<"B", "C">>}

GalleryFolders ==
  <<[id |-> FolderId(1), name |-> <<"S">>, description |-> EmptyStr,
     datecreated |-> -2],
    [id |-> FolderId(2), name |-> <<"T">>, description |-> EmptyStr,
     datecreated |-> -1]>>

\* The n-th comic of a loaded list: ids in list order, dates newest first.
GalleryComic(n, title, description, tags, folderid) ==
  [id |-> ComicId(n), title |-> title, description |-> description,
   date |-> 0 - n, imageurl |-> PublicUrl(MainFileName(0 - n, "png")),
   thumbnailurl |-> NoUrl, mimetype |-> "image/png", tags |-> tags,
   folderid |-> folderid, layoutsize |-> "medium"]

GalleryLists ==
  UNION {
    {list \in [1..n -> [title : GalleryTitles, description : GalleryDescriptions,
                        tags : GalleryTagLists,
                        folderid : {NULL, FolderId(1)}]] : TRUE}
    : n \in 0..MaxGalleryComics}

\* The shell once loadData has returned and nobody is signed in.
LoadedShell ==
  /\ revision \in {"App", "part_000"}
  /\ isSupabaseConfigured = TRUE
  /\ mounted = TRUE
  /\ getSessionPending = FALSE
  /\ getSessionData = NULL
  /\ initialEventPending = FALSE
  /\ loadPc = [pc |-> "done", ok |-> TRUE, data |-> << >>]
  /\ loginPc = "idle"
  /\ logoutPc = "idle"
  /\ isLoading = FALSE
  /\ showLoginModal = FALSE
  /\ loginError = NULL
  /\ isLoggingIn = FALSE

InitGallery ==
  /\ LoadedShell
  /\ \E shape \in GalleryLists :
       comics = [n \in 1..Len(shape) |->
                   GalleryComic(n, shape[n].title, shape[n].description,
                                shape[n].tags, shape[n].folderid)]
  /\ folders = GalleryFolders
  /\ dbComics = Range(comics)
  /\ dbFolders = Range(folders)
  /\ bucket = {lastSegment(c.imageurl) : c \in Range(comics)}
  /\ clock = 0
  /\ nextComicId = Len(comics) + 1
  /\ nextFolderId = Len(folders) + 1
  /\ authSession = NULL
  /\ session = NULL
  /\ viewMode = VIEWER
  /\ DelInit /\ GalleryInit /\ AdminInit /\ ViewerInit /\ HistoryInit

NextGallery ==
  \/ \E q \in GalleryQueries : setSearchQuery(q)
  \/ \E t \in {<<"x">>, <<"y">>, NoTag} : setSelectedTag(t)
  \/ \E f \in {FolderId(1), FolderId(2), NULL} : setActiveFolderId(f)
  \/ clearFilters

SpecGallery == InitGallery /\ [][NextGallery]_vars

\* ------------------------------------------------------------------ ComicViewer

\* <Route path="/comic/:id"> is matched (App.tsx 227).
ViewerVisible == mounted /\ ~ConfigScreen /\ routeId # NULL

\* canvas.toDataURL('image/jpeg', 0.92) of page i of the document at url
\* (ComicViewer.tsx 46-67)
PageImage(url, i) == <<"data">> \o Tail(url) \o <<i>>

\* renderedPages for a document of n pages (ComicViewer.tsx 43-68)
renderedPages(url, n) == [i \in 1..n |-> PageImage(url, i)]

isPdf_Never == FALSE

\* const isPdf = comic.mimetype === 'application/pdf' (ComicViewer.tsx 102)
isPdf == comic # NoComic /\ comic.mimetype = "application/pdf"

\* const currentIndex = comics.findIndex(c => c.id === comic.id), 1-based, 0 for
\* the code's -1 (ComicViewer.tsx 103)
currentIndex == findIndex(comics, comic.id)

prevComic_Newer ==
  IF currentIndex > 1 THEN comics[currentIndex - 1] ELSE NoComic

\* const prevComic = currentIndex < comics.length - 1
\*   ? comics[currentIndex + 1] : null (ComicViewer.tsx 104)
prevComic ==
  IF currentIndex < Len(comics) THEN comics[currentIndex + 1] ELSE NoComic

\* const nextComic = currentIndex > 0 ? comics[currentIndex - 1] : null
\* (ComicViewer.tsx 105)
nextComic ==
  IF currentIndex > 1 THEN comics[currentIndex - 1] ELSE NoComic

\* The sources of the <img> elements the content area renders
\* (ComicViewer.tsx 130-166); none when the not-found screen is up (93-100).
viewerImages ==
  IF comic = NoComic THEN {}
  ELSE IF isPdf
       THEN (IF loadingPdf THEN {} ELSE Range(pdfPages))
       ELSE {comic.imageurl}

\* The loading indicator (ComicViewer.tsx 133-137)
viewerSpinner == comic # NoComic /\ isPdf /\ loadingPdf

\* The two effects that run after the route id or the list changed
\* (ComicViewer.tsx 22-28 and 77-81), from viewer state (c, pages, loading) and
\* the renders in flight: the resolve effect sets comic and clears the pages
\* when the id is found; the render effect starts renderPdfChronicle (35-39)
\* when comic changed to a PDF with a content URL and pdfjsLib is there.
viewerEffects(id, c, pages, loading, inflight) ==
  LET found == find(comics, id)
      hit == id # NULL /\ findIndex(comics, id) # 0
      changed == hit /\ found # c
      starts == /\ changed /\ found.mimetype = "application/pdf"
                /\ found.imageurl # NoUrl /\ pdfjsLib
  IN /\ comic' = (IF hit THEN found ELSE c)
     /\ pdfPages' = (IF hit THEN << >> ELSE pages)
     /\ loadingPdf' = (IF starts THEN TRUE ELSE loading)
     /\ renders' = (IF starts THEN inflight \cup {found.imageurl} ELSE inflight)

\* A gallery card (Gallery.tsx 21-22) or a typed address opens /comic/:id: the
\* viewer mounts with fresh state and its effects run.
openComic(id) ==
  /\ mounted /\ ~ConfigScreen /\ routeId = NULL
  /\ routeId' = id
  /\ viewerEffects(id, NoComic, << >>, FALSE, {})
  /\ lastOp' = Op("openComic", id, NULL)
  /\ portalAfter(FALSE)
  /\ UNCHANGED <<envVars, storeVars, dataVars, authVars, isLoading,
                 shellProcVars, delVars, galleryVars,
                 pdfjsLib, calls>>

\* navigate(`/comic/${id}`) inside the mounted viewer, or an edited address.
navigate(id) ==
  /\ ViewerVisible /\ id # routeId
  /\ routeId' = id
  /\ viewerEffects(id, comic, pdfPages, loadingPdf, renders)
  /\ UNCHANGED <<envVars, bg, bulkVars, storeVars, dataVars, authVars, isLoading,
                 shellProcVars, delVars, galleryVars, formVars, adminVars,
                 pdfjsLib, calls>>

\* An address edited by hand, to a known or an unknown id.
editAddress(id) ==
  /\ navigate(id)
  /\ lastOp' = Op("editAddress", id, NULL)

\* PREV STRIP (ComicViewer.tsx 192-198), disabled without prevComic.
clickPrev ==
  /\ comic # NoComic /\ prevComic # NoComic
  /\ navigate(prevComic.id)
  /\ lastOp' = Op("clickPrev", comic.id, prevComic.id)

\* NEXT STRIP (ComicViewer.tsx 200-206), disabled without nextComic.
clickNext ==
  /\ comic # NoComic /\ nextComic # NoComic
  /\ navigate(nextComic.id)
  /\ lastOp' = Op("clickNext", comic.id, nextComic.id)

\* BACK TO FEED (ComicViewer.tsx 110-112, 97): the viewer unmounts; what its
\* renders still in flight set afterwards is lost with it.
backToFeed ==
  /\ ViewerVisible
  /\ routeId' = NULL
  /\ comic' = NoComic
  /\ pdfPages' = << >>
  /\ loadingPdf' = FALSE
  /\ renders' = {}
  /\ lastOp' = Op("backToFeed", NULL, NULL)
  /\ UNCHANGED <<envVars, bg, bulkVars, storeVars, dataVars, authVars, isLoading,
                 shellProcVars, delVars, galleryVars, formVars, adminVars,
                 pdfjsLib, calls>>

\* renderPdfChronicle after its awaits (ComicViewer.tsx 40-74): the pages are
\* set, or the failure is logged; loadingPdf is reset either way.
renderPdfChronicle_done(url) ==
  /\ url \in renders
  /\ renders' = renders \ {url}
  /\ \E ok \in BOOLEAN, n \in 1..MaxPages :
       /\ pdfPages' = (IF ok THEN renderedPages(url, n) ELSE pdfPages)
       /\ lastOp' = Op("renderPdfChronicle_done", NULL,
                       IF ok THEN "ok" ELSE "error")
  /\ loadingPdf' = FALSE
  /\ UNCHANGED <<envVars, bg, bulkVars, storeVars, dataVars, authVars, isLoading,
                 shellProcVars, delVars, galleryVars, formVars, adminVars,
                 routeId, comic, pdfjsLib, calls>>

\* ---- the viewer on its own: a loaded list, navigation and PDF renders

ViewerKinds == {"image", "pdf", "pdf-without-url"}

\* The n-th comic of a loaded list: ids in list order, dates newest first.
ViewerComic(n, kind) ==
  [id |-> ComicId(n), title |-> <<"A">>, description |-> EmptyStr,
   date |-> 0 - n,
   imageurl |-> (IF kind = "pdf-without-url" THEN NoUrl
                 ELSE PublicUrl(MainFileName(0 - n,
                                  IF kind = "image" THEN "png" ELSE "pdf"))),
   thumbnailurl |-> NoUrl,
   mimetype |-> (IF kind = "image" THEN "image/png" ELSE "application/pdf"),
   tags |-> << >>, folderid |-> NULL, layoutsize |-> "medium"]

ViewerLists == UNION {[1..n -> ViewerKinds] : n \in 0..MaxViewerComics}

InitViewer ==
  /\ LoadedShell
  /\ \E shape \in ViewerLists :
       comics = [n \in 1..Len(shape) |-> ViewerComic(n, shape[n])]
  /\ folders = << >>
  /\ dbComics = Range(comics)
  /\ dbFolders = {}
  /\ bucket = {lastSegment(c.imageurl) : c \in {x \in Range(comics) : x.imageurl # NoUrl}}
  /\ clock = 0
  /\ nextComicId = Len(comics) + 1
  /\ nextFolderId = 1
  /\ authSession = NULL
  /\ session = NULL
  /\ viewMode = VIEWER
  /\ routeId = NULL
  /\ comic = NoComic
  /\ pdfPages = << >>
  /\ loadingPdf = FALSE
  /\ pdfjsLib \in BOOLEAN
  /\ renders = {}
  /\ DelInit /\ GalleryInit /\ AdminInit /\ HistoryInit

NextViewer ==
  \/ \E id \in {c.id : c \in Range(comics)} \cup {"unknown"} :
       openComic(id) \/ editAddress(id)
  \/ clickPrev
  \/ clickNext
  \/ backToFeed
  \/ \E url \in renders : renderPdfChronicle_done(url)

SpecViewer == InitViewer /\ [][NextViewer]_vars

\* ------------------------------------------------------------------ AdminPortal

\* String.prototype.split(sep)
RECURSIVE split(_, _)
split(s, sep) ==
  IF \E i \in 1..Len(s) : s[i] = sep
  THEN LET i == CHOOSE k \in 1..Len(s) :
                  s[k] = sep /\ \A j \in 1..(k - 1) : s[j] # sep
       IN <<SubSeq(s, 1, i - 1)>> \o split(SubSeq(s, i + 1, Len(s)), sep)
  ELSE <<s>>

\* String.prototype.trim
RECURSIVE trim(_)
trim(s) ==
  IF s = EmptyStr THEN s
  ELSE IF Head(s) = " " THEN trim(Tail(s))
  ELSE IF s[Len(s)] = " " THEN trim(SubSeq(s, 1, Len(s) - 1))
  ELSE s

\* newTags.split(',').map(t => t.trim()).filter(t => t) (AdminPortal.tsx 148)
parseTags(text) ==
  LET parts == split(text, ",")
      trimmed == [i \in 1..Len(parts) |-> trim(parts[i])]
  IN SelectSeq(trimmed, LAMBDA t : t # EmptyStr)

\* comic.tags.join(', ') (AdminPortal.tsx 67)
RECURSIVE join(_)
join(tags) ==
  IF tags = << >> THEN EmptyStr
  ELSE IF Len(tags) = 1 THEN tags[1]
  ELSE tags[1] \o <<",", " ">> \o join(Tail(tags))

\* The overlay covers the form while publishStep is not 'idle'
\* (AdminPortal.tsx 257-291); the sidebar stays reachable.
FormOperable == AdminVisible /\ publishStep = "idle" /\ activeTab = "single"

\* Title input (AdminPortal.tsx 317-322)
setNewTitle(t) ==
  /\ FormOperable
  /\ newTitle' = t
  /\ lastOp' = Op("form", NULL, NULL)
  /\ UNCHANGED <<envVars, bg, bulkVars, storeVars, dataVars, authVars, isLoading,
                 shellProcVars, delVars, galleryVars, editModeId, newDesc,
                 newTags, selectedFolder, isCreatingNewFolder, newFolderName,
                 layoutSize, fileObject, previewUrl, thumbPreviewUrl, adminVars,
                 viewerVars, calls>>

\* Artist Note textarea (AdminPortal.tsx 358-362)
setNewDesc(t) ==
  /\ FormOperable
  /\ newDesc' = t
  /\ lastOp' = Op("form", NULL, NULL)
  /\ UNCHANGED <<envVars, bg, bulkVars, storeVars, dataVars, authVars, isLoading,
                 shellProcVars, delVars, galleryVars, editModeId, newTitle,
                 newTags, selectedFolder, isCreatingNewFolder, newFolderName,
                 layoutSize, fileObject, previewUrl, thumbPreviewUrl, adminVars,
                 viewerVars, calls>>

\* Keywords input (AdminPortal.tsx 349-354)
setNewTags(t) ==
  /\ FormOperable
  /\ newTags' = t
  /\ lastOp' = Op("form", NULL, NULL)
  /\ UNCHANGED <<envVars, bg, bulkVars, storeVars, dataVars, authVars, isLoading,
                 shellProcVars, delVars, galleryVars, editModeId, newTitle,
                 newDesc, selectedFolder, isCreatingNewFolder, newFolderName,
                 layoutSize, fileObject, previewUrl, thumbPreviewUrl, adminVars,
                 viewerVars, calls>>

\* Collection select (AdminPortal.tsx 327-334): Standalone or a listed folder.
setSelectedFolder(f) ==
  /\ FormOperable
  /\ f = "" \/ \E x \in Range(folders) : x.id = f
  /\ selectedFolder' = f
  /\ lastOp' = Op("form", NULL, NULL)
  /\ UNCHANGED <<envVars, bg, bulkVars, storeVars, dataVars, authVars, isLoading,
                 shellProcVars, delVars, galleryVars, editModeId, newTitle,
                 newDesc, newTags, isCreatingNewFolder, newFolderName,
                 layoutSize, fileObject, previewUrl, thumbPreviewUrl, adminVars,
                 viewerVars, calls>>

\* The + button (AdminPortal.tsx 335)
toggleCreatingNewFolder ==
  /\ FormOperable
  /\ isCreatingNewFolder' = ~isCreatingNewFolder
  /\ lastOp' = Op("form", NULL, NULL)
  /\ UNCHANGED <<envVars, bg, bulkVars, storeVars, dataVars, authVars, isLoading,
                 shellProcVars, delVars, galleryVars, editModeId, newTitle,
                 newDesc, newTags, selectedFolder, newFolderName,
                 layoutSize, fileObject, previewUrl, thumbPreviewUrl, adminVars,
                 viewerVars, calls>>

\* New Series Name input, rendered while isCreatingNewFolder
\* (AdminPortal.tsx 337-345)
setNewFolderName(n) ==
  /\ FormOperable /\ isCreatingNewFolder
  /\ newFolderName' = n
  /\ lastOp' = Op("form", NULL, NULL)
  /\ UNCHANGED <<envVars, bg, bulkVars, storeVars, dataVars, authVars, isLoading,
                 shellProcVars, delVars, galleryVars, editModeId, newTitle,
                 newDesc, newTags, selectedFolder, isCreatingNewFolder,
                 layoutSize, fileObject, previewUrl, thumbPreviewUrl, adminVars,
                 viewerVars, calls>>

\* handleFileChange (AdminPortal.tsx 87-98) with a chosen file.
handleFileChange(file) ==
  /\ FormOperable
  /\ fileObject' = file
  /\ validationError' = FALSE
  /\ previewUrl' = (IF startsWithImage(file.type) THEN ObjectUrl(file) ELSE NoUrl)
  /\ lastOp' = Op("form", NULL, NULL)
  /\ UNCHANGED <<envVars, bg, bulkVars, storeVars, dataVars, authVars, isLoading,
                 shellProcVars, delVars, galleryVars, editModeId, newTitle,
                 newDesc, newTags, selectedFolder, isCreatingNewFolder,
                 newFolderName, layoutSize, thumbPreviewUrl, publishStep,
                 errorMessage, pub, timers, viewerVars, calls>>

\* startEditing (AdminPortal.tsx 62-74), from the Edit button of the feed log
\* (468), which the overlay does not cover.
startEditing(c) ==
  /\ AdminVisible
  /\ c \in Range(comics)
  /\ activeTab' = "single"
  /\ editModeId' = c.id
  /\ newTitle' = c.title
  /\ newDesc' = c.description
  /\ newTags' = join(c.tags)
  /\ selectedFolder' = (IF c.folderid = NULL THEN "" ELSE c.folderid)
  /\ layoutSize' = (IF c.layoutsize = NULL THEN "medium" ELSE c.layoutsize)
  /\ previewUrl' = c.imageurl
  /\ thumbPreviewUrl' = c.thumbnailurl
  /\ fileObject' = NoFile
  /\ lastOp' = Op("form", NULL, NULL)
  /\ UNCHANGED <<envVars, bg, bulkFiles, batchProgress, storeVars, dataVars, authVars, isLoading,
                 shellProcVars, delVars, galleryVars, isCreatingNewFolder,
                 newFolderName, adminVars, viewerVars, calls>>

\* What cancelEdit sets (AdminPortal.tsx 76-85).
cancelEditFields ==
  /\ editModeId' = NULL
  /\ newTitle' = EmptyStr
  /\ newDesc' = EmptyStr
  /\ newTags' = EmptyStr
  /\ previewUrl' = NoUrl
  /\ thumbPreviewUrl' = NoUrl
  /\ fileObject' = NoFile
  /\ selectedFolder' = ""

\* The Cancel button, rendered in edit mode (AdminPortal.tsx 368-372).
cancelEdit ==
  /\ FormOperable /\ editModeId # NULL
  /\ cancelEditFields
  /\ lastOp' = Op("form", NULL, NULL)
  /\ UNCHANGED <<envVars, bg, bulkVars, storeVars, dataVars, authVars, isLoading,
                 shellProcVars, delVars, galleryVars, isCreatingNewFolder,
                 newFolderName, layoutSize, adminVars, viewerVars, calls>>

\* The handlePublish and handleBulkUpload runs that await a response: the one
\* of the portal on screen, and the detached ones.
Runs == {pub} \cup bg

\* A state setter called by run r after an await: it has no effect when the
\* portal the run belongs to has been unmounted meanwhile.
portalSet(r, old, new) == IF r.detached THEN old ELSE new

\* Run r goes on as record next, or ends; a run is known by the clock value
\* it read when it started.
setRun(r, next) ==
  IF r.detached
  THEN /\ bg' = {x \in bg : x.tempId # r.tempId} \cup {next}
       /\ pub' = pub
  ELSE /\ pub' = next
       /\ bg' = bg

endRun(r) ==
  IF r.detached
  THEN /\ bg' = {x \in bg : x.tempId # r.tempId}
       /\ pub' = pub
  ELSE /\ pub' = [pc |-> "idle"]
       /\ bg' = bg

\* ---- the tables and the bucket, as the portal's calls see them

\* A folderid a comics row may carry: none, or the id of a folders row.
folderRefOk(folderid) ==
  folderid = NULL \/ \E f \in dbFolders : f.id = folderid

\* The row .from('folders').insert([{ name, description: '' }]).select()
\* returns (AdminPortal.tsx 115-118).
NewFolderRow(name, now) ==
  [id |-> FolderId(nextFolderId), name |-> name, description |-> EmptyStr,
   datecreated |-> now]

\* The row .from('comics').insert([payload]).select() returns
\* (AdminPortal.tsx 163-166): the payload with the table's id and date.
NewComicRow(payload) ==
  [id |-> ComicId(nextComicId), title |-> payload.title,
   description |-> payload.description, date |-> clock,
   imageurl |-> payload.imageurl, thumbnailurl |-> payload.thumbnailurl,
   mimetype |-> payload.mimetype, tags |-> payload.tags,
   folderid |-> payload.folderid, layoutsize |-> payload.layoutsize]

\* The row .update(payload).eq('id', id).select() leaves and returns
\* (AdminPortal.tsx 154-158); an undefined mimetype is not sent.
UpdatedComicRow(row, payload) ==
  [id |-> row.id, title |-> payload.title,
   description |-> payload.description, date |-> row.date,
   imageurl |-> payload.imageurl, thumbnailurl |-> payload.thumbnailurl,
   mimetype |-> (IF payload.mimetype = NULL THEN row.mimetype
                 ELSE payload.mimetype),
   tags |-> payload.tags, folderid |-> payload.folderid,
   layoutsize |-> payload.layoutsize]

publishBlocked_TitleOnly == newTitle = EmptyStr

\* if (!newTitle || (!fileObject && !editModeId)) (AdminPortal.tsx 102)
publishBlocked ==
  newTitle = EmptyStr \/ (fileObject = NoFile /\ editModeId = NULL)

\* What handlePublish reads from the render it was created in
\* (AdminPortal.tsx 109, 112, 129-130, 143-150).
publishClosure(tempId) ==
  [pc |-> "start", tempId |-> tempId, editId |-> editModeId,
   file |-> fileObject, title |-> newTitle, description |-> newDesc,
   tags |-> parseTags(newTags), layoutsize |-> layoutSize,
   mimetype |-> (IF fileObject # NoFile THEN fileObject.type
                 ELSE IF findIndex(comics, editModeId) = 0
                      THEN NULL
                      ELSE find(comics, editModeId).mimetype),
   thumbnailurl |-> thumbPreviewUrl, imageurl |-> previewUrl,
   finalFolderId |-> selectedFolder, detached |-> FALSE,
   res |-> [ok |-> TRUE]]

finalFolderIdAfterInsert_KeepsSelected(selected, folderRow) == selected

\* finalFolderId = folderData[0].id (AdminPortal.tsx 123)
finalFolderIdAfterInsert(selected, folderRow) == folderRow.id

\* const payload = {...} (AdminPortal.tsx 142-151)
publishPayload(p) ==
  [title |-> p.title, description |-> p.description, imageurl |-> p.imageurl,
   thumbnailurl |-> p.thumbnailurl, mimetype |-> p.mimetype, tags |-> p.tags,
   folderid |-> (IF p.finalFolderId = "" THEN NULL ELSE p.finalFolderId),
   layoutsize |-> p.layoutsize]

\* supabase.from('folders').insert(...) is issued (AdminPortal.tsx 115-118).
issueFolderInsert(p, name, issued) ==
  /\ \E ok \in BOOLEAN :
       /\ dbFolders' = (IF ok THEN dbFolders \cup {NewFolderRow(name, p.tempId)}
                        ELSE dbFolders)
       /\ nextFolderId' = (IF ok THEN nextFolderId + 1 ELSE nextFolderId)
       /\ setRun(p, [p EXCEPT !.pc = "folders.insert",
                           !.res = [ok |-> ok, row |-> NewFolderRow(name, p.tempId)]])
  /\ publishStep' = "uploading-file"
  /\ calls' = issued \cup {"folders.insert"}
  /\ UNCHANGED <<dbComics, bucket, nextComicId>>

\* setPublishStep('saving-db') and the comics update or insert is issued
\* (AdminPortal.tsx 141-166).
issueDb(p, issued) ==
  LET payload == publishPayload(p)
      hit == {r \in dbComics : r.id = p.editId}
      rows == {UpdatedComicRow(r, payload) : r \in hit}
  IN /\ publishStep' = portalSet(p, publishStep, "saving-db")
     /\ \E ok \in BOOLEAN :
          /\ ok => folderRefOk(payload.folderid)
          /\ IF p.editId # NULL
             THEN /\ dbComics' = (IF ok THEN (dbComics \ hit) \cup rows
                                  ELSE dbComics)
                  /\ nextComicId' = nextComicId
                  /\ setRun(p, [p EXCEPT !.pc = "comics.update",
                                      !.res = [ok |-> ok, rows |-> rows]])
                  /\ calls' = issued \cup {"comics.update"}
             ELSE /\ dbComics' = (IF ok THEN dbComics \cup {NewComicRow(payload)}
                                  ELSE dbComics)
                  /\ nextComicId' = (IF ok THEN nextComicId + 1 ELSE nextComicId)
                  /\ setRun(p, [p EXCEPT !.pc = "comics.insert",
                                      !.res = [ok |-> ok,
                                               rows |-> {NewComicRow(payload)}]])
                  /\ calls' = issued \cup {"comics.insert"}
     /\ UNCHANGED <<dbFolders, bucket, nextFolderId>>

issueUpload_SkipsUpload(p, issued) ==
  issueDb([p EXCEPT !.imageurl = PublicUrl(MainFileName(p.tempId, p.file.name[2]))],
          issued)

\* supabase.storage.from('comics').upload(fileName, fileObject) is issued
\* (AdminPortal.tsx 133-135); an object of that name must not exist yet.
issueUpload(p, issued) ==
  LET fileName == MainFileName(p.tempId, p.file.name[2])
  IN /\ \E ok \in BOOLEAN :
          /\ ok => fileName \notin bucket
          /\ bucket' = (IF ok THEN bucket \cup {fileName} ELSE bucket)
          /\ setRun(p, [p EXCEPT !.pc = "storage.upload",
                              !.res = [ok |-> ok, fileName |-> fileName]])
     /\ publishStep' = portalSet(p, publishStep, "uploading-file")
     /\ calls' = issued \cup {"storage.upload"}
     /\ UNCHANGED <<dbComics, dbFolders, nextComicId, nextFolderId>>

publishCatch_Silent(r, message) ==
  /\ publishStep' = "idle"
  /\ errorMessage' = errorMessage
  /\ timers' = timers
  /\ endRun(r)

\* catch (err) (AdminPortal.tsx 178-183)
publishCatch(r, message) ==
  /\ publishStep' = portalSet(r, publishStep, "error")
  /\ errorMessage' = portalSet(r, errorMessage, message)
  /\ timers' = portalSet(r, timers, timers \cup {"error"})
  /\ endRun(r)

\* handlePublish up to its first await (AdminPortal.tsx 100-135, 141-166).
handlePublish ==
  /\ FormOperable /\ pub.pc = "idle"
  /\ IF publishBlocked
     THEN /\ validationError' = TRUE
          /\ timers' = timers \cup {"validation"}
          /\ lastOp' = Op("handlePublish", editModeId, "blocked")
          /\ UNCHANGED <<storeVars, publishStep, pub, bg, calls>>
     ELSE /\ clock < MaxClock
          /\ clock' = clock + 1
          /\ LET p == publishClosure(clock + 1)
             IN IF isCreatingNewFolder /\ newFolderName # EmptyStr
                THEN issueFolderInsert(p, newFolderName, calls)
                ELSE IF fileObject # NoFile THEN issueUpload(p, calls)
                ELSE issueDb(p, calls)
          /\ lastOp' = Op("handlePublish", editModeId, "started")
          /\ UNCHANGED <<authSession, validationError, timers>>
  /\ UNCHANGED <<envVars, bulkVars, dataVars, authVars, isLoading, shellProcVars, delVars,
                 galleryVars, formVars, errorMessage, viewerVars>>

\* handlePublish after the folders insert returned (AdminPortal.tsx 120-135,
\* 141-166): onAddFolder appends the row (App.tsx 221).
handlePublish_afterFolder(r) ==
  /\ r.pc = "folders.insert"
  /\ IF r.res.ok
     THEN /\ folders' = Append(folders, r.res.row)
          /\ isCreatingNewFolder' = portalSet(r, isCreatingNewFolder, FALSE)
          /\ newFolderName' = portalSet(r, newFolderName, EmptyStr)
          /\ LET p == [r EXCEPT !.finalFolderId =
                         finalFolderIdAfterInsert(r.finalFolderId, r.res.row)]
                 issued == calls \cup {"onAddFolder"}
             IN IF p.file # NoFile THEN issueUpload(p, issued)
                ELSE issueDb(p, issued)
          /\ lastOp' = Op("handlePublish_afterFolder", r.res.row.id, "ok")
          /\ UNCHANGED <<errorMessage, timers>>
     ELSE /\ publishCatch(r, "folders insert failed")
          /\ lastOp' = Op("handlePublish_afterFolder", NULL, "error")
          /\ UNCHANGED <<dbComics, dbFolders, bucket, nextComicId, nextFolderId,
                         folders, isCreatingNewFolder, newFolderName, calls>>
  /\ UNCHANGED <<envVars, bulkVars, authSession, clock, comics, authVars, isLoading,
                 shellProcVars, delVars, galleryVars, editModeId, newTitle,
                 newDesc, newTags, selectedFolder, layoutSize, fileObject,
                 previewUrl, thumbPreviewUrl, validationError, viewerVars>>

\* handlePublish after the upload returned (AdminPortal.tsx 136-166).
handlePublish_afterUpload(r) ==
  /\ r.pc = "storage.upload"
  /\ IF r.res.ok
     THEN /\ issueDb([r EXCEPT !.imageurl = PublicUrl(r.res.fileName)],
                     calls)
          /\ lastOp' = Op("handlePublish_afterUpload", NULL, "ok")
          /\ UNCHANGED <<errorMessage, timers>>
     ELSE /\ publishCatch(r, "upload failed")
          /\ lastOp' = Op("handlePublish_afterUpload", NULL, "error")
          /\ UNCHANGED <<dbComics, dbFolders, bucket, nextComicId, nextFolderId,
                         calls>>
  /\ UNCHANGED <<envVars, bulkVars, authSession, clock, dataVars, authVars, isLoading,
                 shellProcVars, delVars, galleryVars, formVars, validationError,
                 viewerVars>>

\* onUpdate={(c) => setComics(prev => prev.map(item => item.id === c.id ? c
\* : item))} (App.tsx 219)
onUpdate(list, c) ==
  [k \in 1..Len(list) |-> IF list[k].id = c.id THEN c ELSE list[k]]

\* onAdd={(c) => setComics(prev => [c, ...prev])} (App.tsx 218, part_000 160)
onAdd(list, c) == <<c>> \o list

\* handlePublish after the comics update or insert returned
\* (AdminPortal.tsx 160-176).  The earlier shell hands the portal no onUpdate
\* (part_000 156-164): calling it throws inside the try block.
handlePublish_afterDb(r) ==
  /\ r.pc \in {"comics.update", "comics.insert"}
  /\ LET row == CHOOSE x \in r.res.rows : TRUE
         merges == r.res.ok /\ r.res.rows # {}
         throws == merges /\ r.pc = "comics.update" /\ revision = "part_000"
     IN /\ comics' = (IF merges /\ ~throws
                      THEN (IF r.pc = "comics.update" THEN onUpdate(comics, row)
                            ELSE onAdd(comics, row))
                      ELSE comics)
        /\ calls' = (IF merges /\ ~throws
                     THEN calls \cup {IF r.pc = "comics.update" THEN "onUpdate"
                                      ELSE "onAdd"}
                     ELSE calls)
        /\ IF r.res.ok /\ ~throws
           THEN /\ publishStep' = portalSet(r, publishStep, "success")
                /\ timers' = portalSet(r, timers, timers \cup {"success"})
                /\ endRun(r)
                /\ lastOp' = Op("handlePublish_afterDb",
                                IF merges THEN row.id ELSE NULL, "ok")
                /\ UNCHANGED errorMessage
           ELSE /\ publishCatch(r, IF throws THEN "onUpdate is not a function"
                                ELSE "comics write failed")
                /\ lastOp' = Op("handlePublish_afterDb", NULL, "error")
  /\ UNCHANGED <<envVars, bulkVars, storeVars, folders, authVars, isLoading,
                 shellProcVars, delVars, galleryVars, formVars, validationError,
                 viewerVars>>

\* setTimeout(() => setValidationError(false), 1000) (AdminPortal.tsx 104)
timer_validation ==
  /\ "validation" \in timers
  /\ timers' = timers \ {"validation"}
  /\ validationError' = FALSE
  /\ lastOp' = Op("timer", NULL, NULL)
  /\ UNCHANGED <<envVars, bg, bulkVars, storeVars, dataVars, authVars, isLoading,
                 shellProcVars, delVars, galleryVars, formVars, publishStep,
                 errorMessage, pub, viewerVars, calls>>

\* setTimeout(() => { setPublishStep('idle'); cancelEdit(); }, 1500)
\* (AdminPortal.tsx 173-176)
timer_success ==
  /\ "success" \in timers
  /\ timers' = timers \ {"success"}
  /\ publishStep' = "idle"
  /\ cancelEditFields
  /\ lastOp' = Op("timer", NULL, NULL)
  /\ UNCHANGED <<envVars, bg, bulkVars, storeVars, dataVars, authVars, isLoading,
                 shellProcVars, delVars, galleryVars, isCreatingNewFolder,
                 newFolderName, layoutSize, errorMessage, validationError, pub,
                 viewerVars, calls>>

timer_error_KeepsStep ==
  /\ "error" \in timers
  /\ timers' = timers \ {"error"}
  /\ publishStep' = publishStep
  /\ lastOp' = Op("timer", NULL, NULL)
  /\ UNCHANGED <<envVars, bg, bulkVars, storeVars, dataVars, authVars, isLoading,
                 shellProcVars, delVars, galleryVars, formVars, errorMessage,
                 validationError, pub, viewerVars, calls>>

\* setTimeout(() => setPublishStep('idle'), 3000) (AdminPortal.tsx 182)
timer_error ==
  /\ "error" \in timers
  /\ timers' = timers \ {"error"}
  /\ publishStep' = "idle"
  /\ lastOp' = Op("timer", NULL, NULL)
  /\ UNCHANGED <<envVars, bg, bulkVars, storeVars, dataVars, authVars, isLoading,
                 shellProcVars, delVars, galleryVars, formVars, errorMessage,
                 validationError, pub, viewerVars, calls>>

\* ---- bulk upload

\* The bulk panel is shown on the Bulk tab (AdminPortal.tsx 293, 393-416),
\* under the same overlay as the form.
BulkOperable == AdminVisible /\ publishStep = "idle" /\ activeTab = "bulk"

\* The Single / Bulk tab buttons (AdminPortal.tsx 240-252), above the overlay.
setActiveTab(tab) ==
  /\ AdminVisible /\ activeTab # tab
  /\ activeTab' = tab
  /\ lastOp' = Op("form", NULL, NULL)
  /\ UNCHANGED <<envVars, bg, bulkFiles, batchProgress, storeVars, dataVars,
                 authVars, isLoading, shellProcVars, delVars, galleryVars,
                 formVars, adminVars, viewerVars, calls>>

\* The bulk file input (AdminPortal.tsx 397)
setBulkFiles(files) ==
  /\ BulkOperable
  /\ bulkFiles' = files
  /\ lastOp' = Op("form", NULL, NULL)
  /\ UNCHANGED <<envVars, bg, activeTab, batchProgress, storeVars, dataVars,
                 authVars, isLoading, shellProcVars, delVars, galleryVars,
                 formVars, adminVars, viewerVars, calls>>

\* `${tempId}-bulk.${fileExt}` with tempId = `${Date.now()}-${i}`
\* (AdminPortal.tsx 196-198); i counts from 1 here and from 0 in the code, and
\* the pair (now, i) is written as one number.
BulkFileName(now, i, fileExt) == <<now * 10 + (i - 1), "bulk", fileExt>>

\* file.name without its extension, dashes and underscores as spaces
\* (AdminPortal.tsx 207); the base names of the model's files contain none.
bulkTitle(file) == <<file.name[1]>>

\* What handleBulkUpload reads from the render it was created in
\* (AdminPortal.tsx 191-192, 209-210).
bulkClosure(now) ==
  [pc |-> "start", tempId |-> now, files |-> bulkFiles, i |-> 1,
   tags |-> parseTags(newTags), finalFolderId |-> selectedFolder,
   detached |-> FALSE, res |-> [ok |-> TRUE]]

\* The object inserted for file i (AdminPortal.tsx 206-212); the columns it
\* leaves out take the table's defaults.
bulkPayload(p, url) ==
  [title |-> bulkTitle(p.files[p.i]), description |-> EmptyStr,
   imageurl |-> url, thumbnailurl |-> NoUrl, mimetype |-> p.files[p.i].type,
   tags |-> p.tags,
   folderid |-> (IF p.finalFolderId = "" THEN NULL ELSE p.finalFolderId),
   layoutsize |-> NULL]

\* One pass of the loop up to the upload's await (AdminPortal.tsx 191-200):
\* the progress is advanced and the upload of file i is issued.
issueBulkUpload(p, progress, issued) ==
  LET fileName == BulkFileName(p.tempId, p.i, p.files[p.i].name[2])
  IN /\ batchProgress' = portalSet(p, batchProgress,
                                   [progress EXCEPT !.current = p.i])
     /\ \E ok \in BOOLEAN :
          /\ ok => fileName \notin bucket
          /\ bucket' = (IF ok THEN bucket \cup {fileName} ELSE bucket)
          /\ setRun(p, [p EXCEPT !.pc = "bulk.upload",
                              !.res = [ok |-> ok, fileName |-> fileName]])
     /\ calls' = issued \cup {"storage.upload"}
     /\ UNCHANGED <<dbComics, dbFolders, nextComicId, nextFolderId>>

\* The comics insert of file i is issued (AdminPortal.tsx 203-213).
issueBulkInsert(p, issued) ==
  LET row == NewComicRow(bulkPayload(p, PublicUrl(p.res.fileName)))
  IN /\ \E ok \in BOOLEAN :
          /\ ok => folderRefOk(row.folderid)
          /\ dbComics' = (IF ok THEN dbComics \cup {row} ELSE dbComics)
          /\ nextComicId' = (IF ok THEN nextComicId + 1 ELSE nextComicId)
          /\ setRun(p, [p EXCEPT !.pc = "bulk.insert",
                              !.res = [ok |-> ok, rows |-> {row}]])
     /\ calls' = issued \cup {"comics.insert"}
     /\ UNCHANGED <<dbFolders, bucket, nextFolderId, publishStep, bulkFiles,
                    batchProgress, timers>>

\* The loop goes on to the next file, or ends (AdminPortal.tsx 191, 222-224).
bulkNext(p, issued) ==
  IF p.i < Len(p.files)
  THEN /\ issueBulkUpload([p EXCEPT !.i = p.i + 1], batchProgress, issued)
       /\ UNCHANGED <<publishStep, bulkFiles, timers>>
  ELSE /\ publishStep' = portalSet(p, publishStep, "success")
       /\ bulkFiles' = portalSet(p, bulkFiles, << >>)
       /\ timers' = portalSet(p, timers, timers \cup {"bulk"})
       /\ endRun(p)
       /\ calls' = issued
       /\ UNCHANGED <<dbComics, dbFolders, bucket, nextComicId, nextFolderId,
                      batchProgress>>

\* handleBulkUpload up to its first await (AdminPortal.tsx 186-200); the
\* button is disabled without files (410).
handleBulkUpload ==
  /\ BulkOperable /\ pub.pc = "idle"
  /\ Len(bulkFiles) > 0
  /\ clock < MaxClock
  /\ clock' = clock + 1
  /\ publishStep' = "batch-processing"
  /\ issueBulkUpload(bulkClosure(clock + 1),
                     [current |-> 0, total |-> Len(bulkFiles)], calls)
  /\ lastOp' = Op("handleBulkUpload", NULL, "started")
  /\ UNCHANGED <<envVars, activeTab, bulkFiles, authSession, dataVars,
                 authVars, isLoading, shellProcVars, delVars, galleryVars,
                 formVars, errorMessage, validationError, timers, viewerVars>>

handleBulkUpload_afterUpload_Breaks(r) ==
  /\ r.pc = "bulk.upload"
  /\ IF r.res.ok
     THEN issueBulkInsert(r, calls)
     ELSE /\ bulkNext([r EXCEPT !.i = Len(r.files)], calls)
  /\ lastOp' = Op("handleBulkUpload_afterUpload", NULL,
                  IF r.res.ok THEN "ok" ELSE "error")
  /\ UNCHANGED <<envVars, activeTab, authSession, clock, dataVars, authVars,
                 isLoading, shellProcVars, delVars, galleryVars, formVars,
                 errorMessage, validationError, viewerVars>>

\* handleBulkUpload after the upload of file i returned (AdminPortal.tsx
\* 200-213); an upload that failed, by an error or by a throw (215-217),
\* moves on to the next file.
handleBulkUpload_afterUpload(r) ==
  /\ r.pc = "bulk.upload"
  /\ IF r.res.ok
     THEN issueBulkInsert(r, calls)
     ELSE /\ bulkNext(r, calls)
  /\ lastOp' = Op("handleBulkUpload_afterUpload", NULL,
                  IF r.res.ok THEN "ok" ELSE "error")
  /\ UNCHANGED <<envVars, activeTab, authSession, clock, dataVars, authVars,
                 isLoading, shellProcVars, delVars, galleryVars, formVars,
                 errorMessage, validationError, viewerVars>>

\* handleBulkUpload after the insert of file i returned (AdminPortal.tsx
\* 214-218): the created row is handed to onAdd, then the loop goes on.
handleBulkUpload_afterInsert(r) ==
  /\ r.pc = "bulk.insert"
  /\ LET row == CHOOSE x \in r.res.rows : TRUE
     IN /\ comics' = (IF r.res.ok THEN onAdd(comics, row) ELSE comics)
        /\ bulkNext(r, IF r.res.ok THEN calls \cup {"onAdd"} ELSE calls)
        /\ lastOp' = Op("handleBulkUpload_afterInsert",
                        IF r.res.ok THEN row.id ELSE NULL,
                        IF r.res.ok THEN "ok" ELSE "error")
  /\ UNCHANGED <<envVars, activeTab, authSession, clock, folders, authVars,
                 isLoading, shellProcVars, delVars, galleryVars, formVars,
                 errorMessage, validationError, viewerVars>>

\* setTimeout(() => setPublishStep('idle'), 2000) (AdminPortal.tsx 224)
timer_bulk ==
  /\ "bulk" \in timers
  /\ timers' = timers \ {"bulk"}
  /\ publishStep' = "idle"
  /\ lastOp' = Op("timer", NULL, NULL)
  /\ UNCHANGED <<envVars, bg, bulkVars, storeVars, dataVars, authVars, isLoading,
                 shellProcVars, delVars, galleryVars, formVars, errorMessage,
                 validationError, pub, viewerVars, calls>>

\* ---- deleting

\* prev.filter(c => c.id !== id) (App.tsx 120, part_000 161)
removeComic(list, id) == SelectSeq(list, LAMBDA c : c.id # id)

\* prev.filter(f => f.id !== id) (App.tsx 140, part_000 163)
removeFolder(list, id) == SelectSeq(list, LAMBDA f : f.id # id)

makeStandalone_DropsComics(list, id) ==
  SelectSeq(list, LAMBDA c : c.folderid # id)

\* prev.map(c => c.folderid === id ? { ...c, folderid: undefined } : c)
\* (App.tsx 142)
makeStandalone(list, id) ==
  [k \in 1..Len(list) |->
     IF list[k].folderid = id THEN [list[k] EXCEPT !.folderid = NULL]
     ELSE list[k]]

\* What the folders delete leaves in the comics table: the rows of the folder
\* stay, with a null folderid (App.tsx 130-131).
comicsAfterFolderDelete(rows, id) ==
  {IF r.folderid = id THEN [r EXCEPT !.folderid = NULL] ELSE r : r \in rows}

\* The handleDeleteComic and handleDeleteFolder calls that have not returned.
deletesInFlight == Cardinality(delComic) + Cardinality(delFolder)

\* The Delete button of the feed log (AdminPortal.tsx 469), confirmed, in the
\* shell of src/App.tsx: handleDeleteComic up to its first await (98-108).
handleDeleteComic(id) ==
  /\ revision = "App" /\ AdminVisible /\ isSupabaseConfigured
  /\ deletesInFlight < MaxInFlight
  /\ \E c \in Range(comics) :
       /\ c.id = id
       /\ \E ok \in BOOLEAN :
            /\ dbComics' = (IF ok THEN {r \in dbComics : r.id # id} ELSE dbComics)
            /\ delComic' = delComic \cup
                 {[id |-> id, pc |-> "comics.delete", ok |-> ok,
                   imageurl |-> c.imageurl]}
  /\ calls' = calls \cup {"onDelete", "comics.delete"}
  /\ lastOp' = Op("handleDeleteComic", id, "issued")
  /\ UNCHANGED <<envVars, bg, bulkVars, dbFolders, bucket, authSession, clock, nextComicId,
                 nextFolderId, dataVars, authVars, isLoading, shellProcVars,
                 delFolder, galleryVars, formVars, adminVars, viewerVars>>

\* handleDeleteComic after the table delete returned (App.tsx 110-124): the
\* error is alerted, or the stored object is removed, or the list is filtered.
handleDeleteComic_afterDb(d) ==
  /\ d \in delComic /\ d.pc = "comics.delete"
  /\ IF ~d.ok
     THEN /\ delComic' = delComic \ {d}
          /\ lastOp' = Op("handleDeleteComic_afterDb", d.id, "error")
          /\ UNCHANGED <<bucket, comics, calls>>
     ELSE IF includesSupabase(d.imageurl)
     THEN /\ \E ok \in BOOLEAN :
               bucket' = (IF ok THEN bucket \ {lastSegment(d.imageurl)}
                          ELSE bucket)
          /\ delComic' = (delComic \ {d}) \cup {[d EXCEPT !.pc = "storage.remove"]}
          /\ calls' = calls \cup {"storage.remove"}
          /\ lastOp' = Op("handleDeleteComic_afterDb", d.id, "removing")
          /\ UNCHANGED comics
     ELSE /\ comics' = removeComic(comics, d.id)
          /\ delComic' = delComic \ {d}
          /\ lastOp' = Op("handleDeleteComic_afterDb", d.id, "ok")
          /\ UNCHANGED <<bucket, calls>>
  /\ UNCHANGED <<envVars, bg, bulkVars, dbComics, dbFolders, authSession, clock, nextComicId,
                 nextFolderId, folders, authVars, isLoading, shellProcVars,
                 delFolder, galleryVars, formVars, adminVars, viewerVars>>

\* handleDeleteComic after the storage removal returned (App.tsx 116-120); its
\* result is not looked at.
handleDeleteComic_afterRemove(d) ==
  /\ d \in delComic /\ d.pc = "storage.remove"
  /\ comics' = removeComic(comics, d.id)
  /\ delComic' = delComic \ {d}
  /\ lastOp' = Op("handleDeleteComic_afterRemove", d.id, "ok")
  /\ UNCHANGED <<envVars, bg, bulkVars, storeVars, folders, authVars, isLoading,
                 shellProcVars, delFolder, galleryVars, formVars, adminVars,
                 viewerVars, calls>>

\* The same button in the earlier shell: onDelete filters the list
\* (part_000 161).
onDelete(id) ==
  /\ revision = "part_000" /\ AdminVisible
  /\ \E c \in Range(comics) : c.id = id
  /\ comics' = removeComic(comics, id)
  /\ calls' = calls \cup {"onDelete"}
  /\ lastOp' = Op("onDelete", id, "ok")
  /\ UNCHANGED <<envVars, bg, bulkVars, storeVars, folders, authVars, isLoading,
                 shellProcVars, delVars, galleryVars, formVars, adminVars,
                 viewerVars>>

\* The Delete button of the series list (AdminPortal.tsx 492-497), confirmed,
\* in the shell of src/App.tsx: handleDeleteFolder up to its await (127-136).
handleDeleteFolder(id) ==
  /\ revision = "App" /\ AdminVisible /\ isSupabaseConfigured
  /\ deletesInFlight < MaxInFlight
  /\ \E f \in Range(folders) : f.id = id
  /\ \E ok \in BOOLEAN :
       /\ dbFolders' = (IF ok THEN {f \in dbFolders : f.id # id} ELSE dbFolders)
       /\ dbComics' = (IF ok THEN comicsAfterFolderDelete(dbComics, id)
                       ELSE dbComics)
       /\ delFolder' = delFolder \cup {[id |-> id, ok |-> ok]}
  /\ calls' = calls \cup {"onDeleteFolder", "folders.delete"}
  /\ lastOp' = Op("handleDeleteFolder", id, "issued")
  /\ UNCHANGED <<envVars, bg, bulkVars, bucket, authSession, clock, nextComicId,
                 nextFolderId, dataVars, authVars, isLoading, shellProcVars,
                 delComic, galleryVars, formVars, adminVars, viewerVars>>

handleDeleteFolder_afterDb_IgnoresError(d) ==
  /\ d \in delFolder
  /\ delFolder' = delFolder \ {d}
  /\ folders' = removeFolder(folders, d.id)
  /\ comics' = makeStandalone(comics, d.id)
  /\ lastOp' = Op("handleDeleteFolder_afterDb", d.id,
                  IF d.ok THEN "ok" ELSE "error")
  /\ UNCHANGED <<envVars, bg, bulkVars, storeVars, authVars, isLoading, shellProcVars,
                 delComic, galleryVars, formVars, adminVars, viewerVars, calls>>

\* handleDeleteFolder after the delete returned (App.tsx 138-146).
handleDeleteFolder_afterDb(d) ==
  /\ d \in delFolder
  /\ delFolder' = delFolder \ {d}
  /\ folders' = (IF d.ok THEN removeFolder(folders, d.id) ELSE folders)
  /\ comics' = (IF d.ok THEN makeStandalone(comics, d.id) ELSE comics)
  /\ lastOp' = Op("handleDeleteFolder_afterDb", d.id,
                  IF d.ok THEN "ok" ELSE "error")
  /\ UNCHANGED <<envVars, bg, bulkVars, storeVars, authVars, isLoading, shellProcVars,
                 delComic, galleryVars, formVars, adminVars, viewerVars, calls>>

\* The same button in the earlier shell: onDeleteFolder filters the folder
\* list (part_000 163).
onDeleteFolder(id) ==
  /\ revision = "part_000" /\ AdminVisible
  /\ \E f \in Range(folders) : f.id = id
  /\ folders' = removeFolder(folders, id)
  /\ calls' = calls \cup {"onDeleteFolder"}
  /\ lastOp' = Op("onDeleteFolder", id, "ok")
  /\ UNCHANGED <<envVars, bg, bulkVars, storeVars, comics, authVars, isLoading,
                 shellProcVars, delVars, galleryVars, formVars, adminVars,
                 viewerVars>>

\* ---- the admin portal with a session

AdminTitles == {EmptyStr, <<"C">>}
AdminFolderNames == {EmptyStr, <<"I">>}
AdminFiles == {ImageFile, PdfFile}

\* The source of the <img> of a feed-log row (AdminPortal.tsx 455-463), NoUrl
\* when the row shows the 'ART' placeholder instead.
feedLogSrc(c) ==
  IF c.imageurl # NoUrl
     /\ (startsWithImage(c.mimetype) \/ c.mimetype = "application/pdf")
  THEN (IF c.thumbnailurl # NoUrl THEN c.thumbnailurl ELSE c.imageurl)
  ELSE NoUrl

\* The shell after loadData, signed in and in ADMIN mode, over the given rows.
AdminLoaded(comicRows, folderRows) ==
  /\ LoadedShell
  /\ StoreInit(comicRows, folderRows)
  /\ authSession = "s1"
  /\ session = "s1"
  /\ viewMode = ADMIN
  /\ comics = orderByDateDesc(dbComics)
  /\ folders = orderByDateCreatedAsc(dbFolders)
  /\ DelInit /\ GalleryInit /\ AdminInit /\ ViewerInit /\ HistoryInit

\* handlePublish past the upload, and the timers it leaves.
NextPublishSteps ==
  \/ \E r \in Runs : handlePublish_afterUpload(r)
  \/ \E r \in Runs : handlePublish_afterDb(r)
  \/ timer_validation
  \/ timer_success
  \/ timer_error

\* ---- publishing: the form, edit mode and handlePublish

\* An entry the form published earlier.
EarlierComics ==
  {[id |-> ComicId(1), title |-> <<"C">>, description |-> EmptyStr,
    date |-> -1, imageurl |-> PublicUrl(MainFileName(-1, "png")),
    thumbnailurl |-> NoUrl, mimetype |-> "image/png", tags |-> << >>,
    folderid |-> NULL, layoutsize |-> "medium"]}

InitPublish == \E rows \in {{}, EarlierComics} : AdminLoaded(rows, {})

NextPublish ==
  \/ \E t \in AdminTitles : setNewTitle(t)
  \/ \E f \in {""} \cup {x.id : x \in Range(folders)} : setSelectedFolder(f)
  \/ toggleCreatingNewFolder
  \/ \E n \in AdminFolderNames : setNewFolderName(n)
  \/ \E file \in AdminFiles : handleFileChange(file)
  \/ \E c \in Range(comics) : startEditing(c)
  \/ cancelEdit
  \/ handlePublish
  \/ \E r \in Runs : handlePublish_afterFolder(r)
  \/ NextPublishSteps

SpecPublish == InitPublish /\ [][NextPublish]_vars

\* ---- deleting comics and folders of loaded tables

InitDelete == AdminLoaded(SeedComics, SeedFolders)

NextDelete ==
  \/ \E c \in Range(comics) : handleDeleteComic(c.id)
  \/ \E c \in Range(comics) : onDelete(c.id)
  \/ \E d \in delComic : handleDeleteComic_afterDb(d)
  \/ \E d \in delComic : handleDeleteComic_afterRemove(d)
  \/ \E f \in Range(folders) : handleDeleteFolder(f.id)
  \/ \E f \in Range(folders) : onDeleteFolder(f.id)
  \/ \E d \in delFolder : handleDeleteFolder_afterDb(d)

SpecDelete == InitDelete /\ [][NextDelete]_vars

\* ---- deleting while an entry is published into a folder

InitRace == AdminLoaded(SeedComics, SeedFolders)

NextRace ==
  \/ setNewTitle(<<"C">>)
  \/ \E f \in {""} \cup {x.id : x \in Range(folders)} : setSelectedFolder(f)
  \/ handleFileChange(ImageFile)
  \/ handlePublish
  \/ NextPublishSteps
  \/ NextDelete

SpecRace == InitRace /\ [][NextRace]_vars

\* ---- leaving the portal while a publish or a bulk upload is in flight

\* The selection of the bulk file input: two image files.
BulkSelections == {<<ImageFile, ImageFile>>}

NextBulkSteps ==
  \/ \E r \in Runs : handleBulkUpload_afterUpload(r)
  \/ \E r \in Runs : handleBulkUpload_afterInsert(r)
  \/ timer_bulk

\* Steps that take the portal off the screen, and back.
NextLeaveSteps ==
  \/ toggleAtelier
  \/ \E id \in {c.id : c \in Range(comics)} : openComic(id)
  \/ backToFeed

\* The shell of src/App.tsx with its tables loaded and empty.
InitLeave == AdminLoaded({}, {}) /\ revision = "App"

NextLeave ==
  \/ setNewTitle(<<"C">>)
  \/ handleFileChange(ImageFile)
  \/ handlePublish
  \/ NextPublishSteps
  \/ \E tab \in {"single", "bulk"} : setActiveTab(tab)
  \/ \E files \in BulkSelections : setBulkFiles(files)
  \/ handleBulkUpload
  \/ NextBulkSteps
  \/ NextLeaveSteps

SpecLeave == InitLeave /\ [][NextLeave]_vars

\* ---- two publishes, the first one left behind by its portal

\* The shell of src/App.tsx with its tables loaded and empty, two reads of
\* the clock before the last one.
InitOverlap ==
  /\ LoadedShell /\ revision = "App"
  /\ dbComics = {} /\ dbFolders = {} /\ bucket = {}
  /\ clock = MaxClock - 2
  /\ nextComicId = 1 /\ nextFolderId = 1
  /\ authSession = "s1" /\ session = "s1" /\ viewMode = ADMIN
  /\ comics = << >> /\ folders = << >>
  /\ DelInit /\ GalleryInit /\ AdminInit /\ ViewerInit /\ HistoryInit

NextOverlap ==
  \/ setNewTitle(<<"C">>)
  \/ handleFileChange(ImageFile)
  \/ handlePublish
  \/ NextPublishSteps
  \/ toggleAtelier

SpecOverlap == InitOverlap /\ [][NextOverlap]_vars

\* ---- editing an entry while an earlier update of it is still running

\* The shell of src/App.tsx signed in, in ADMIN mode, over one published entry,
\* two reads of the clock before the last one.
InitEdit ==
  /\ LoadedShell /\ revision = "App"
  /\ dbComics = EarlierComics /\ dbFolders = {}
  /\ bucket = {lastSegment(r.imageurl) : r \in EarlierComics}
  /\ clock = MaxClock - 2
  /\ nextComicId = 2 /\ nextFolderId = 1
  /\ authSession = "s1" /\ session = "s1" /\ viewMode = ADMIN
  /\ comics = orderByDateDesc(dbComics) /\ folders = << >>
  /\ DelInit /\ GalleryInit /\ AdminInit /\ ViewerInit /\ HistoryInit

NextEdit ==
  \/ \E c \in Range(comics) : startEditing(c)
  \/ \E file \in AdminFiles : handleFileChange(file)
  \/ cancelEdit
  \/ handlePublish
  \/ NextPublishSteps
  \/ toggleAtelier

SpecEdit == InitEdit /\ [][NextEdit]_vars

\* ---- publishes and bulk uploads whose responses and timers arrive

\* The portal of either shell over one published entry, one read of the clock
\* before the last one: one publish or bulk upload is followed from its start.
InitLive ==
  /\ LoadedShell
  /\ dbComics = EarlierComics /\ dbFolders = {}
  /\ bucket = {lastSegment(r.imageurl) : r \in EarlierComics}
  /\ clock = MaxClock - 1
  /\ nextComicId = 2 /\ nextFolderId = 1
  /\ authSession = "s1" /\ session = "s1" /\ viewMode = ADMIN
  /\ comics = orderByDateDesc(dbComics) /\ folders = << >>
  /\ DelInit /\ GalleryInit /\ AdminInit /\ ViewerInit /\ HistoryInit

NextLive ==
  \/ setNewTitle(<<"C">>)
  \/ toggleCreatingNewFolder
  \/ setNewFolderName(<<"I">>)
  \/ handleFileChange(ImageFile)
  \/ \E c \in Range(comics) : startEditing(c)
  \/ handlePublish
  \/ \E r \in Runs : handlePublish_afterFolder(r)
  \/ NextPublishSteps
  \/ \E tab \in {"single", "bulk"} : setActiveTab(tab)
  \/ \E files \in BulkSelections : setBulkFiles(files)
  \/ handleBulkUpload
  \/ NextBulkSteps
  \/ toggleAtelier

\* Every remote call is answered, so the continuation of an awaiting run is
\* eventually taken, and every timer set by setTimeout (AdminPortal.tsx 173,
\* 182, 224) eventually fires.
LiveFairness ==
  /\ WF_vars(\E r \in Runs : handlePublish_afterFolder(r))
  /\ WF_vars(\E r \in Runs : handlePublish_afterUpload(r))
  /\ WF_vars(\E r \in Runs : handlePublish_afterDb(r))
  /\ WF_vars(\E r \in Runs : handleBulkUpload_afterUpload(r))
  /\ WF_vars(\E r \in Runs : handleBulkUpload_afterInsert(r))
  /\ WF_vars(timer_success)
  /\ WF_vars(timer_error)
  /\ WF_vars(timer_bulk)

SpecLive == InitLive /\ [][NextLive]_vars /\ LiveFairness

\* ------------------------------------------------------------------ claims

\* C1 is stated with its own reading of 'case-insensitive substring': some
\* window of the text agrees with the search text letter by letter, two letters
\* agreeing when they are equal or differ only in case.
C1_SameLetter(x, y) == x = y \/ LowerChar(x) = y \/ x = LowerChar(y) \/ LowerChar(x) = LowerChar(y)

C1_CaseInsensitiveSubstring(q, text) ==
  \E start \in 1..(Len(text) - Len(q) + 1) :
    \A k \in 1..Len(q) : C1_SameLetter(text[start + k - 1], q[k])

\* C1: the gallery's visible list holds exactly the comics that pass every
\* active filter: the folder filter (its folderid is the active folder), the
\* search (the text is a case-insensitive substring of title or description)
\* and the tag filter (its tags contain the tag); each comic at most once.
C1_VisibleSetIsConjunction ==
  /\ Range(filteredComics) =
       {c \in Range(comics) :
          /\ activeFolderId # NULL => c.folderid = activeFolderId
          /\ searchQuery # EmptyStr =>
               \/ C1_CaseInsensitiveSubstring(searchQuery, c.title)
               \/ C1_CaseInsensitiveSubstring(searchQuery, c.description)
          /\ selectedTag # NoTag => \E i \in 1..Len(c.tags) : c.tags[i] = selectedTag}
  /\ Len(filteredComics) = Cardinality(Range(filteredComics))

\* C1 witness: the three filters are active at once, the search text matches
\* only through a difference in case, and the visible list is neither empty
\* nor the whole list.
C1_Witness ==
  /\ activeFolderId # NULL /\ searchQuery # EmptyStr /\ selectedTag # NoTag
  /\ filteredComics # << >>
  /\ Len(filteredComics) < Len(comics)
  /\ \A c \in Range(filteredComics) :
       ~includes(c.title, searchQuery) /\ ~includes(c.description, searchQuery)

\* C9: when handleLogout has completed, and when an auth-state-change
\* notification carrying no session has been handled, viewMode is VIEWER.
C9_LogoutForcesViewer ==
  (\/ lastOp.op = "handleLogout_resume"
   \/ (lastOp.op = "onAuthStateChange" /\ lastOp.arg = NULL))
  => viewMode = VIEWER

\* C9 witness: a logout that started in the admin portal has completed, and a
\* notification without a session arrived while the admin portal was shown.
C9_Witness ==
  \/ lastOp = Op("handleLogout_resume", ADMIN, "ok")
  \/ (lastOp = Op("onAuthStateChange", NULL, ADMIN) /\ viewMode = VIEWER)

\* C10 as stated: the root route shows the admin portal only if a session
\* exists and viewMode is ADMIN, and the public gallery in every other state.
C10_AdminOrGalleryAlways ==
  /\ RootScreen = "AdminPortal" => (session # NULL /\ viewMode = ADMIN)
  /\ ~(session # NULL /\ viewMode = ADMIN) => RootScreen = "Gallery"

\* C10 amended: the root route shows the admin portal only if a session exists
\* and viewMode is ADMIN; in every other state it shows the public gallery once
\* the initial load has finished and the configuration screen is not up, and
\* neither of the two before that.
C10_AdminGated ==
  /\ RootScreen = "AdminPortal" => (session # NULL /\ viewMode = ADMIN)
  /\ ~(session # NULL /\ viewMode = ADMIN) =>
       IF isLoading \/ ConfigScreen
       THEN RootScreen \notin {"AdminPortal", "Gallery"}
       ELSE RootScreen = "Gallery"

\* C10 witness: the admin portal is on screen.
C10_Witness == RootScreen = "AdminPortal" /\ lastOp.op = "handleLogin_resume"

\* C6: in the viewer, with the displayed entry at position i of the loaded
\* list, PREV leads to the entry at position i+1 (the next older one) and NEXT
\* to the entry at position i-1 (the next newer one); PREV is disabled at the
\* last position and NEXT at the first; a click lands on exactly that entry.
C6_PrevNextByPosition ==
  /\ (ViewerVisible /\ comic # NoComic) =>
       \A i \in 1..Len(comics) :
         comics[i].id = comic.id =>
           /\ (prevComic = NoComic) <=> (i = Len(comics))
           /\ (nextComic = NoComic) <=> (i = 1)
           /\ i < Len(comics) =>
                prevComic = comics[i + 1] /\ prevComic.date < comics[i].date
           /\ i > 1 =>
                nextComic = comics[i - 1] /\ nextComic.date > comics[i].date
  /\ lastOp.op = "clickPrev" =>
       \E i \in 1..(Len(comics) - 1) :
         /\ comics[i].id = lastOp.arg
         /\ routeId = comics[i + 1].id /\ comic = comics[i + 1]
  /\ lastOp.op = "clickNext" =>
       \E i \in 2..Len(comics) :
         /\ comics[i].id = lastOp.arg
         /\ routeId = comics[i - 1].id /\ comic = comics[i - 1]

\* PREV was clicked on the newer of two loaded comics and the older one is up.
C6_Witness ==
  /\ Len(comics) = 2 /\ comics[1].date > comics[2].date
  /\ lastOp.op = "clickPrev" /\ lastOp.arg = comics[1].id
  /\ comic = comics[2] /\ prevComic = NoComic /\ nextComic = comics[1]

\* C7: while a PDF entry is displayed, no <img> of the viewer has the entry's
\* raw content URL as its source: either the loading indicator is up and no
\* image is rendered, or every image is a rasterized page of the page list.
C7_PdfNeverRawImg ==
  (ViewerVisible /\ comic # NoComic /\ comic.mimetype = "application/pdf") =>
    /\ comic.imageurl \notin viewerImages
    /\ \/ viewerSpinner /\ viewerImages = {}
       \/ /\ viewerImages \subseteq Range(pdfPages)
          /\ \A src \in viewerImages : src[1] = "data"

\* A PDF entry is displayed after its render completed with pages.
C7_Witness ==
  /\ ViewerVisible /\ comic # NoComic /\ comic.mimetype = "application/pdf"
  /\ comic.imageurl # NoUrl
  /\ ~loadingPdf /\ Len(pdfPages) = MaxPages
  /\ viewerImages = Range(pdfPages)
  /\ lastOp.op = "renderPdfChronicle_done"

\* C2: when a delete of a comic has completed without a reported error, no
\* entry with that id is in the in-memory comics list and no record with that
\* id is in the comics table.
C2_DeleteRemovesFromListAndStore ==
  (/\ lastOp.op \in {"handleDeleteComic_afterDb", "handleDeleteComic_afterRemove",
                     "onDelete"}
   /\ lastOp.result = "ok") =>
    /\ \A c \in Range(comics) : c.id # lastOp.arg
    /\ \A r \in dbComics : r.id # lastOp.arg

\* C3 as stated: the step in which a folder delete succeeds leaves the folder
\* out of the in-memory folder list, keeps every comic of the in-memory list
\* (same ids, same order), and clears the folderid of every comic that
\* referenced the folder.
C3_FolderDeleteClearsEveryReference ==
  [][(/\ lastOp'.op \in {"handleDeleteFolder_afterDb", "onDeleteFolder"}
      /\ lastOp'.result = "ok") =>
       /\ \A f \in Range(folders') : f.id # lastOp'.arg
       /\ Len(comics') = Len(comics)
       /\ \A k \in 1..Len(comics) :
            /\ comics'[k].id = comics[k].id
            /\ comics[k].folderid = lastOp'.arg => comics'[k].folderid = NULL]_vars

\* C3 as amended: the step in which a folder delete succeeds leaves the folder
\* out of the in-memory folder list and keeps every comic of the in-memory
\* list (same ids, same order); in the shell of src/App.tsx every comic that
\* referenced the folder has its folderid cleared and is otherwise unchanged,
\* in the earlier shell (part_000) every comic is unchanged and keeps its
\* folderid.
C3_FolderDeleteKeepsComics ==
  [][(/\ lastOp'.op \in {"handleDeleteFolder_afterDb", "onDeleteFolder"}
      /\ lastOp'.result = "ok") =>
       /\ \A f \in Range(folders') : f.id # lastOp'.arg
       /\ Len(comics') = Len(comics)
       /\ \A k \in 1..Len(comics) :
            comics'[k] =
              (IF revision = "App" /\ comics[k].folderid = lastOp'.arg
               THEN [comics[k] EXCEPT !.folderid = NULL]
               ELSE comics[k])]_vars

\* A folder delete has succeeded in the shell of src/App.tsx: the folder list
\* is empty and both comics are listed, the one of the folder now standalone.
C3_Witness ==
  /\ lastOp = Op("handleDeleteFolder_afterDb", FolderId(1), "ok")
  /\ folders = << >>
  /\ Len(comics) = Cardinality(SeedComics)
  /\ \E k \in 1..Len(comics) :
       comics[k].id = ComicId(1) /\ comics[k].folderid = NULL

\* C4: once a folder delete was requested and no remote operation is in
\* flight, every comic of the in-memory list has the folder reference of its
\* record in the comics table, which is what a reload would return.
C4_FolderReferencesAgreeWithStore ==
  (/\ "onDeleteFolder" \in calls
   /\ pub.pc = "idle" /\ delComic = {} /\ delFolder = {}) =>
    \A k \in 1..Len(comics) :
      \A r \in dbComics :
        r.id = comics[k].id => r.folderid = comics[k].folderid

\* C5: a submit of the form with an empty title, or with no file outside edit
\* mode, raises validationError, leaves publishStep 'idle', starts no publish
\* run and issues no call: the tables, the bucket and the calls made so far
\* are unchanged.
C5_BlockedSubmitContactsNothing ==
  [][(/\ lastOp'.op = "handlePublish"
      /\ \/ newTitle = EmptyStr
         \/ fileObject = NoFile /\ editModeId = NULL) =>
       /\ validationError'
       /\ publishStep = "idle" /\ publishStep' = "idle"
       /\ pub'.pc = "idle"
       /\ calls' = calls
       /\ dbFolders' = dbFolders /\ dbComics' = dbComics /\ bucket' = bucket]_vars

\* A submit with a title and without a file, outside edit mode, was blocked.
C5_Witness ==
  /\ lastOp = Op("handlePublish", NULL, "blocked")
  /\ newTitle # EmptyStr /\ fileObject = NoFile /\ editModeId = NULL
  /\ validationError /\ publishStep = "idle" /\ calls = {}

\* The one publish run of a session that started from empty tables has just
\* merged an image entry, after creating its folder inline, with every call
\* succeeding and nothing else called.
C8_OnePublishWithInlineFolder ==
  /\ lastOp.op = "handlePublish_afterDb" /\ lastOp.result = "ok"
  /\ clock = 1
  /\ calls = {"folders.insert", "onAddFolder", "storage.upload",
              "comics.insert", "onAdd"}
  /\ \A r \in dbComics : r.date > 0
  /\ \A f \in dbFolders : f.datecreated > 0
  /\ \E r \in dbComics : r.id = lastOp.arg /\ startsWithImage(r.mimetype)

\* C8: after such a run the folder list holds exactly one folder, the new
\* entry's folderid is that folder's id, the gallery's visible set under that
\* folder filter is exactly the new entry, and the folder's count is 1.
C8_EndToEndInlineFolder ==
  C8_OnePublishWithInlineFolder =>
    /\ Len(folders) = 1
    /\ Range(folders) = dbFolders
    /\ \E k \in 1..Len(comics) :
         /\ comics[k].id = lastOp.arg
         /\ comics[k].folderid = folders[1].id
         /\ filteredComicsOf(comics, folders[1].id, EmptyStr, NoTag)
              = <<comics[k]>>
    /\ folderCount(folders[1]) = 1

\* Such a run has happened and the entry is listed under the new folder.
C8_Witness ==
  /\ C8_OnePublishWithInlineFolder
  /\ Len(comics) = 1 /\ Len(folders) = 1
  /\ comics[1].folderid = folders[1].id
  /\ folderCount(folders[1]) = 1

\* C11: a data-load error leaves the lists empty.  Once loadData has returned
\* after its folders query or its comics query failed, the in-memory comics
\* list and the in-memory folders list are both empty.
C11_LoadErrorLeavesListsEmpty ==
  (loadPc.pc = "done" /\ ~loadPc.ok) => (comics = << >> /\ folders = << >>)

\* C12: when the backend endpoint URL or the public API key is absent, the
\* configuration-required screen is shown instead of the gallery or the admin
\* portal, and no table query, storage call or sign-in call has been issued by
\* load, login, publish or delete.
C12_UnconfiguredDisablesData ==
  (mounted /\ ~isSupabaseConfigured) =>
    /\ RootScreen = "ConfigurationRequired"
    /\ calls \cap {"folders.select", "comics.select", "auth.signInWithPassword",
                   "folders.insert", "storage.upload", "comics.insert",
                   "comics.update", "comics.delete", "storage.remove",
                   "folders.delete"} = {}

\* C13: in every publish run the remote steps occur in order.  The inline
\* folder insert is issued only by the submit itself; the upload is issued by
\* the submit or after the folder insert returned its row, which is merged
\* first; when the run has a file, the comics write is issued only after the
\* upload returned without error, with the object in the bucket and its
\* public URL in the payload; and the in-memory list changes only when the
\* comics write has returned the record that is merged.
C13_PublishStepsInOrder ==
  [][/\ (pub' # pub /\ pub'.pc = "folders.insert") => pub.pc = "idle"
     /\ (pub' # pub /\ pub'.pc = "storage.upload") =>
          \/ pub.pc = "idle"
          \/ /\ pub.pc = "folders.insert" /\ pub.res.ok
             /\ pub.res.row \in Range(folders')
     /\ (pub' # pub /\ pub'.pc \in {"comics.update", "comics.insert"}) =>
          IF pub'.file # NoFile
          THEN /\ pub.pc = "storage.upload" /\ pub.res.ok
               /\ pub.res.fileName \in bucket
               /\ pub'.imageurl = PublicUrl(pub.res.fileName)
          ELSE \/ pub.pc = "idle"
               \/ pub.pc = "folders.insert" /\ pub.res.ok
     /\ comics' # comics =>
          /\ pub.pc \in {"comics.update", "comics.insert"} /\ pub.res.ok
          /\ \E r \in pub.res.rows : r \in Range(comics') /\ r \in dbComics
    ]_vars

\* A publish with an inline folder and a file has gone through all four steps.
C13_Witness ==
  /\ lastOp.op = "handlePublish_afterDb" /\ lastOp.result = "ok"
  /\ {"folders.insert", "onAddFolder", "storage.upload", "comics.insert",
      "onAdd"} \subseteq calls
  /\ \E k \in 1..Len(comics) :
       comics[k].id = lastOp.arg /\ lastSegment(comics[k].imageurl) \in bucket

\* C14: every application/pdf entry created through the publish form carries
\* a separately generated raster thumbnail.  Its stored record (the records
\* created by the form are those dated after the initial state) has a
\* thumbnailurl that is not null and names an object of the storage bucket.
C14_CreatedPdfHasThumbnail ==
  \A r \in dbComics :
    (r.date > 0 /\ r.mimetype = "application/pdf") =>
      /\ r.thumbnailurl # NoUrl
      /\ lastSegment(r.thumbnailurl) \in bucket

\* C15: a publish that fails partway is not rolled back.  When the comics
\* insert or update of a run that uploaded its file returns an error, the
\* uploaded object is still in the bucket and no record refers to it, the
\* tables and the in-memory list are as before, and publishStep becomes
\* 'error' with the backend's message.
C15_FailedWriteLeavesUpload ==
  [][(/\ lastOp'.op = "handlePublish_afterDb"
      /\ pub.file # NoFile /\ ~pub.res.ok) =>
       LET fileName == MainFileName(pub.tempId, pub.file.name[2])
       IN /\ fileName \in bucket'
          /\ \A r \in dbComics' :
               r.imageurl = NoUrl \/ lastSegment(r.imageurl) # fileName
          /\ dbComics' = dbComics
          /\ comics' = comics
          /\ publishStep' = "error"
          /\ errorMessage' = "comics write failed"
    ]_vars

\* The comics write of a run with an uploaded file has just failed.
C15_Witness ==
  /\ lastOp = Op("handlePublish_afterDb", NULL, "error")
  /\ {"storage.upload", "comics.insert"} \subseteq calls
  /\ publishStep = "error" /\ errorMessage = "comics write failed"
  /\ \E o \in bucket :
       \A r \in dbComics : r.imageurl = NoUrl \/ lastSegment(r.imageurl) # o

\* C16: a failed login is non-fatal and shown inline.  The step in which
\* handleLogin learns that signInWithPassword failed sets loginError to a
\* non-empty message, leaves the login modal, viewMode and the session as they
\* were, and clears isLoggingIn, so that the form can be submitted again.
C16_FailedLoginShownInline ==
  [][(lastOp'.op = "handleLogin_resume" /\ lastOp'.result = "error") =>
       /\ loginError' \notin {NULL, ""}
       /\ showLoginModal' = showLoginModal
       /\ viewMode' = viewMode
       /\ session' = session /\ authSession' = authSession
       /\ ~isLoggingIn' /\ loginPc' = "idle"
    ]_vars

\* A sign-in has just failed with the modal open.
C16_Witness ==
  /\ lastOp = Op("handleLogin_resume", NULL, "error")
  /\ showLoginModal /\ loginError = "Invalid credentials."
  /\ ~isLoggingIn /\ session = NULL /\ viewMode = VIEWER

C18_ComicsDateOrdered ==
  \A i \in 1..(Len(comics) - 1) : comics[i].date >= comics[i + 1].date

\* C19: while the viewer route is up, the entry the viewer displays is the
\* loaded entry whose id is the route id, and it displays none (the 'Comic not
\* found' screen) when no loaded entry has that id.
C19_ViewerShowsRouteEntry ==
  ViewerVisible =>
    IF findIndex(comics, routeId) # 0
    THEN comic = find(comics, routeId)
    ELSE comic = NoComic

\* No handler awaits a response of the backend.
C20_Quiescent ==
  /\ pub.pc = "idle" /\ bg = {}
  /\ delComic = {} /\ delFolder = {}
  /\ loadPc.pc = "done" /\ loginPc = "idle" /\ logoutPc = "idle"
  /\ ~getSessionPending

\* C20: with no remote operation in flight, every comic of the in-memory
\* comics list and every folder of the in-memory folder list is a record the
\* store holds.
C20_MemoryHoldsStoreRecords ==
  C20_Quiescent => /\ Range(comics) \subseteq dbComics
                   /\ Range(folders) \subseteq dbFolders

\* The same by id alone: with no remote operation in flight, no entry and no
\* folder is in memory whose id the store no longer holds.
C20_MemoryIdsInStore ==
  C20_Quiescent =>
    /\ {c.id : c \in Range(comics)} \subseteq {r.id : r \in dbComics}
    /\ {f.id : f \in Range(folders)} \subseteq {r.id : r \in dbFolders}

\* C21: the step in which a confirmed series delete succeeds leaves neither
\* the folder nor any comic that referenced it in the in-memory lists or in
\* the tables.
C21_SeriesDeleteRemovesItsComics ==
  [][(/\ lastOp'.op \in {"handleDeleteFolder_afterDb", "onDeleteFolder"}
      /\ lastOp'.result = "ok") =>
       LET gone == {c.id : c \in {x \in Range(comics) :
                                    x.folderid = lastOp'.arg}}
       IN /\ \A f \in Range(folders') : f.id # lastOp'.arg
          /\ \A f \in dbFolders' : f.id # lastOp'.arg
          /\ \A c \in Range(comics') : c.id \notin gone
          /\ \A r \in dbComics' : r.id \notin gone]_vars

\* C22: a delete whose table delete reports an error changes nothing locally.
\* The step that issues a delete leaves the in-memory lists as they are; the
\* step in which a failed comics delete returns leaves both lists and the
\* bucket as they are, issues no call (no storage removal) and ends the
\* handler; the step in which a failed folders delete returns leaves both
\* lists as they are.
C22_FailedDeleteChangesNothing ==
  [][/\ (delComic' \ delComic # {} \/ delFolder' \ delFolder # {}) =>
          (comics' = comics /\ folders' = folders)
     /\ \A d \in delComic :
          (d \notin delComic' /\ d.pc = "comics.delete" /\ ~d.ok) =>
            /\ comics' = comics /\ folders' = folders
            /\ bucket' = bucket /\ calls' = calls
            /\ delComic' = delComic \ {d}
     /\ \A d \in delFolder :
          (d \notin delFolder' /\ ~d.ok) =>
            (comics' = comics /\ folders' = folders /\ calls' = calls)
    ]_vars

\* A delete of a comic whose file is in the bucket has just failed: the comic
\* is still listed, its file is still stored and no removal was issued.
C22_Witness ==
  /\ lastOp = Op("handleDeleteComic_afterDb", ComicId(1), "error")
  /\ \E c \in Range(comics) :
       /\ c.id = ComicId(1) /\ includesSupabase(c.imageurl)
       /\ lastSegment(c.imageurl) \in bucket
  /\ "storage.remove" \notin calls
  /\ delComic = {}

\* C23: every comic of the in-memory list has no folderid, or the folderid of
\* a folder of the in-memory folder list.
C23_LocalFolderReferences ==
  \A c \in Range(comics) :
    c.folderid = NULL \/ \E f \in Range(folders) : f.id = c.folderid

\* C24: whenever the viewer displays a PDF entry with a non-empty page list
\* and the loading indicator is off, the page list is the rendering of that
\* entry's content URL.
C24_PagesBelongToEntry ==
  (/\ ViewerVisible /\ comic # NoComic /\ isPdf
   /\ pdfPages # << >> /\ ~loadingPdf) =>
    pdfPages = renderedPages(comic.imageurl, Len(pdfPages))

\* C25: while no sign-in and no sign-out call is awaited, view mode ADMIN
\* comes with a session.
C25_AdminImpliesSession ==
  (loginPc = "idle" /\ logoutPc = "idle" /\ viewMode = ADMIN) => session # NULL

\* C26: no gallery card and no feed-log row of the admin portal shows an image
\* whose source is the content URL of a PDF entry.
C26_PdfContentNeverImgSrc ==
  \A c \in Range(comics) :
    (c.mimetype = "application/pdf" /\ c.imageurl # NoUrl) =>
      /\ GalleryVisible => displayUrl(c) # c.imageurl
      /\ AdminVisible => feedLogSrc(c) # c.imageurl

\* The gallery half of C26: a card of a PDF entry shows its thumbnail or the
\* placeholder.
C26_GalleryCardNeverRawPdf ==
  \A c \in Range(comics) :
    (GalleryVisible /\ c.mimetype = "application/pdf" /\ c.imageurl # NoUrl) =>
      displayUrl(c) \in {c.thumbnailurl, NoUrl} \ {c.imageurl}

\* C27: a publish started in edit mode with no file selected, for an entry of
\* the list, sends the entry's own imageurl, thumbnailurl and mimetype.
C27_EditWithoutFileKeepsContent ==
  [][(/\ lastOp'.op = "handlePublish" /\ lastOp'.result = "started"
      /\ pub.pc = "idle" /\ pub'.pc # "idle"
      /\ editModeId # NULL /\ fileObject = NoFile
      /\ findIndex(comics, editModeId) # 0) =>
       LET entry == find(comics, editModeId)
           payload == publishPayload(pub')
       IN /\ payload.imageurl = entry.imageurl
          /\ payload.thumbnailurl = entry.thumbnailurl
          /\ payload.mimetype = entry.mimetype]_vars

\* C27 witness: an update without a file was sent for an entry and has come
\* back, and the row keeps the content it had.
C27_Witness ==
  /\ lastOp.op = "handlePublish_afterDb" /\ lastOp.result = "ok"
  /\ \E c \in Range(comics) : c.id = ComicId(1) /\ c.imageurl = PublicUrl(MainFileName(-1, "png"))

\* The bulk runs being awaited, and the URL the i-th file of the run that
\* started at clock value now is published under.
C28_BulkRuns == {r \in Runs : r.pc \in {"bulk.upload", "bulk.insert"}}

C28_BulkUrl(now, i) == PublicUrl(BulkFileName(now, i, "png"))

\* The URL is one a bulk run gave to a file.
C28_IsBulkUrl(url) == includesSupabase(url) /\ Len(url) = 4 /\ url[3] = "bulk"

\* C28 (the loop): a bulk run starts at its first file; after each response it
\* goes from the upload of file i to the insert of file i when the upload
\* succeeded, and otherwise, and after every insert, to the upload of file
\* i + 1, ending only after the last file.
C28_LoopStep ==
  /\ \A x \in C28_BulkRuns' :
       (\A r \in C28_BulkRuns : r.tempId # x.tempId) =>
         (x.i = 1 /\ x.pc = "bulk.upload")
  /\ \A r \in C28_BulkRuns :
       LET next == {x \in C28_BulkRuns' : x.tempId = r.tempId}
           passed == r.pc = "bulk.insert" \/ ~r.res.ok
       IN \/ \E x \in next : x.i = r.i /\ x.pc = r.pc
          \/ /\ r.pc = "bulk.upload" /\ r.res.ok
             /\ \E x \in next : x.i = r.i /\ x.pc = "bulk.insert"
          \/ /\ passed /\ r.i < Len(r.files)
             /\ \E x \in next : x.i = r.i + 1 /\ x.pc = "bulk.upload"
          \/ /\ passed /\ r.i = Len(r.files)
             /\ next = {}

\* C28 (the result): an entry for a bulk file is in the in-memory list only if
\* the comics table holds its row, at most once, and once no bulk run is
\* awaited every such row is in the list.
C28_ResultState ==
  /\ \A k \in 1..Len(comics) :
       C28_IsBulkUrl(comics[k].imageurl) =>
         /\ \E r \in dbComics : r.imageurl = comics[k].imageurl
         /\ lastSegment(comics[k].imageurl) \in bucket
         /\ \A j \in 1..Len(comics) :
              comics[j].imageurl = comics[k].imageurl => j = k
  /\ C28_BulkRuns = {} =>
       \A r \in dbComics :
         C28_IsBulkUrl(r.imageurl) =>
           \E c \in Range(comics) : c.imageurl = r.imageurl

\* C28: bulk upload takes the files in order, each once, a failed file does not
\* stop the files after it, the entries added to the in-memory list are those
\* whose upload and insert both succeeded, and batchProgress.current never
\* exceeds batchProgress.total.
C28_BulkUploadProcessesEveryFile ==
  [][/\ C28_LoopStep
     /\ C28_ResultState'
     /\ batchProgress'.current <= batchProgress'.total]_vars

\* C28 witness: a batch of two files has finished; the upload of the first
\* failed, the second is in the list, and the progress shows 2 of 2.
C28_Witness ==
  /\ lastOp.op = "handleBulkUpload_afterInsert" /\ lastOp.result = "ok"
  /\ C28_BulkRuns = {} /\ publishStep = "success"
  /\ batchProgress = [current |-> 2, total |-> 2]
  /\ \E now \in (0 - MaxClock)..MaxClock :
       /\ \E c \in Range(comics) : c.imageurl = C28_BulkUrl(now, 2)
       /\ \A c \in Range(comics) : c.imageurl # C28_BulkUrl(now, 1)
       /\ BulkFileName(now, 1, "png") \notin bucket

\* The changes of publishStep the code makes between two renders of one portal
\* (AdminPortal.tsx 108, 141, 172-174, 180-182, 188, 222-224).  A publish with
\* no folder to create and no file to upload calls setPublishStep with
\* 'uploading-file' and 'saving-db' before its first await, so the rendered
\* value goes from 'idle' to 'saving-db'.
C29_StepPairs ==
  {<<"idle", "uploading-file">>, <<"idle", "saving-db">>,
   <<"uploading-file", "saving-db">>, <<"uploading-file", "error">>,
   <<"saving-db", "success">>, <<"saving-db", "error">>,
   <<"success", "idle">>, <<"error", "idle">>,
   <<"idle", "batch-processing">>, <<"batch-processing", "success">>}

\* C29: while a portal stays mounted its publishStep changes only along
\* uploading-file -> saving-db -> success -> idle, into error -> idle, or
\* batch-processing -> success -> idle, and a publishStep that is not 'idle'
\* eventually is 'idle' again.
C29_PublishStepReturnsToIdle ==
  /\ [][(AdminVisible /\ AdminVisible' /\ publishStep' # publishStep) =>
          <<publishStep, publishStep'>> \in C29_StepPairs]_vars
  /\ (publishStep # "idle") ~> (publishStep = "idle")

\* C29 witness: a publish failed, the error was shown, and the timer has put
\* publishStep back to 'idle' in the portal that started it.
C29_Witness ==
  /\ lastOp.op = "timer" /\ publishStep = "idle" /\ AdminVisible
  /\ errorMessage # "" /\ pub.pc = "idle" /\ bg = {}

====
